---- MODULE Spec2Model ----
(***************************************************************************)
(* A model of the chess engine core: bitboard move generation, the         *)
(* make/unmake mutator with its incremental Zobrist hash, the ply-         *)
(* segmented MoveList, the transposition table and the alpha-beta search.  *)
(*                                                                         *)
(* A BitBoard (u64) is modelled as the set of the squares whose bit is     *)
(* set: & is \cap, | is \cup, !a & b is b \ a, the lowest set bit is the   *)
(* minimum.  A Zobrist number is modelled as a set of key names and ^ as   *)
(* the symmetric difference: two hashes that are equal here are equal for  *)
(* every choice of the 781 random numbers.                                 *)
(***************************************************************************)
EXTENDS Integers, Sequences, FiniteSets, TLC

(***************************************************************************)
(* Squares and bitboards                                                   *)
(***************************************************************************)
Squares == 0..63

EMPTY == {}

rank(s) == s \div 8

file(s) == s % 8

BitBoardFile(n) == {s \in Squares : s % 8 = n}

BitBoardRank(n) == {s \in Squares : s \div 8 = n}

\* Option<Square>: None is modelled as -1
None == -1

get_first_square(b) == IF b = {} THEN None ELSE CHOOSE x \in b : \A y \in b : x <= y

get_last_square(b) == IF b = {} THEN None ELSE CHOOSE x \in b : \A y \in b : x >= y

\* b << n and b >> n on 64 bits: bits shifted out are lost
ShiftLeftTwice(b, n) == {s + 2 * n : s \in {t \in b : t + 2 * n <= 63}}

ShiftLeft(b, n) == {s + n : s \in {t \in b : t + n <= 63}}

ShiftRightTwice(b, n) == {s - 2 * n : s \in {t \in b : t - 2 * n >= 0}}

ShiftRight(b, n) == {s - n : s \in {t \in b : t - n >= 0}}

\* the squares of a bitboard in the order pop_first_square yields them
RECURSIVE PopFirstOrder(_)
PopFirstOrder(b) ==
    IF b = {} THEN <<>>
    ELSE LET s == get_first_square(b) IN <<s>> \o PopFirstOrder(b \ {s})

\* the squares of a bitboard in the order pop_last_square yields them
RECURSIVE PopLastOrder(_)
PopLastOrder(b) ==
    IF b = {} THEN <<>>
    ELSE LET s == get_last_square(b) IN <<s>> \o PopLastOrder(b \ {s})

RECURSIVE Flatten(_)
Flatten(ss) == IF ss = <<>> THEN <<>> ELSE Head(ss) \o Flatten(Tail(ss))

\* let v = value; F(v)
With(value, F(_)) == F(value)

(***************************************************************************)
(* Colors, piece types, moves                                              *)
(***************************************************************************)
Colors == {"White", "Black"}

Not(c) == IF c = "White" THEN "Black" ELSE "White"

\* ChessBoardSide::as_array order
PieceOrder == <<"pawn", "knight", "bishop", "rook", "queen", "king">>

PieceTypes == {"pawn", "knight", "bishop", "rook", "queen", "king"}

MoveCodes == {"QuietMove", "DoublePawnPush", "KingCastle", "QueenCastle", "Capture",
              "EnPassant", "KnightPromotion", "BishopPromotion", "RookPromotion",
              "QueenPromotion", "KnightPromotionCapture", "BishopPromotionCapture",
              "RookPromotionCapture", "QueenPromotionCapture"}

MoveNew(from, to, code) == [from |-> from, to |-> to, code |-> code]

\* the u16 value 0 that search.rs uses for "no move": from 0, to 0, QUIET_MOVE
ZeroMove == MoveNew(0, 0, "QuietMove")

is_castle(m) == m.code = "KingCastle" \/ m.code = "QueenCastle"

is_capture_en_passant_only(m) == m.code = "EnPassant"

is_capture(m) ==
    m.code \in {"Capture", "EnPassant", "KnightPromotionCapture", "BishopPromotionCapture",
                "RookPromotionCapture", "QueenPromotionCapture"}

is_promotion(m) ==
    m.code \in {"KnightPromotion", "BishopPromotion", "RookPromotion", "QueenPromotion",
                "KnightPromotionCapture", "BishopPromotionCapture",
                "RookPromotionCapture", "QueenPromotionCapture"}

\* the piece a promotion code promotes to (capture_promotion_to_promotion + match)
promotion(m) ==
    CASE m.code \in {"KnightPromotion", "KnightPromotionCapture"} -> "knight"
      [] m.code \in {"BishopPromotion", "BishopPromotionCapture"} -> "bishop"
      [] m.code \in {"RookPromotion", "RookPromotionCapture"} -> "rook"
      [] m.code \in {"QueenPromotion", "QueenPromotionCapture"} -> "queen"
      [] OTHER -> "none"

\* a test that takes the plain quiet move only for quiet
is_quiet_move_code(m) == m.code = "QuietMove"

is_quiet_without_pawn_push(m) == m.code \in {"QuietMove", "KingCastle", "QueenCastle"}

is_quiet(m) == m.code \in {"QuietMove", "DoublePawnPush", "KingCastle", "QueenCastle"}

(***************************************************************************)
(* Attack maps                                                             *)
(***************************************************************************)
in_bounds(a) == a >= 0 /\ a < 64

generate_from_offsets(offsets, illegal_files) ==
    [square \in Squares |->
        {square + offsets[i] :
            i \in {j \in 1..Len(offsets) :
                     in_bounds(square + offsets[j]) /\ square \notin illegal_files[j]}}]

RECURSIVE RayFrom(_, _, _)
RayFrom(curr_pos, direction, stop_mask) ==
    IF curr_pos \in stop_mask THEN {}
    ELSE {curr_pos + direction} \cup RayFrom(curr_pos + direction, direction, stop_mask)

generate_from_direction(direction, stop_mask) ==
    [square \in Squares |-> RayFrom(square, direction, stop_mask)]

generate_knight_map ==
    LET a_file == BitBoardFile(0)
        ab_file == a_file \cup BitBoardFile(1)
        h_file == BitBoardFile(7)
        gh_file == h_file \cup BitBoardFile(6)
    IN generate_from_offsets(<<-17, -15, -10, -6, 6, 10, 15, 17>>,
           <<a_file, h_file, ab_file, gh_file, ab_file, gh_file, a_file, h_file>>)

\* a king map built without the file masks
generate_king_map_unmasked ==
    generate_from_offsets(<<-9, -8, -7, -1, 1, 7, 8, 9>>,
        <<EMPTY, EMPTY, EMPTY, EMPTY, EMPTY, EMPTY, EMPTY, EMPTY>>)

generate_king_map ==
    generate_from_offsets(<<-9, -8, -7, -1, 1, 7, 8, 9>>,
        <<BitBoardFile(0), EMPTY, BitBoardFile(7), BitBoardFile(0), BitBoardFile(7),
          BitBoardFile(0), EMPTY, BitBoardFile(7)>>)

\* MoveMaps::new: one definition for each field of MoveMaps
knight_map == generate_knight_map

king_map == generate_king_map

ne_diagonal_map == generate_from_direction(9, BitBoardFile(7) \cup BitBoardRank(7))

nw_diagonal_map == generate_from_direction(7, BitBoardFile(0) \cup BitBoardRank(7))

sw_diagonal_map == generate_from_direction(-9, BitBoardFile(0) \cup BitBoardRank(0))

se_diagonal_map == generate_from_direction(-7, BitBoardFile(7) \cup BitBoardRank(0))

e_rank_map == generate_from_direction(1, BitBoardFile(7))

w_rank_map == generate_from_direction(-1, BitBoardFile(0))

n_file_map == generate_from_direction(8, BitBoardRank(7))

s_file_map == generate_from_direction(-8, BitBoardRank(0))

white_pawn_passive_map == generate_from_offsets(<<8>>, <<BitBoardRank(7)>>)

black_pawn_passive_map == generate_from_offsets(<<-8>>, <<BitBoardRank(0)>>)

white_pawn_double_map == generate_from_offsets(<<16>>, <<Squares \ BitBoardRank(1)>>)

black_pawn_double_map == generate_from_offsets(<<-16>>, <<Squares \ BitBoardRank(6)>>)

white_pawn_attack_map ==
    generate_from_offsets(<<7, 9>>, <<BitBoardFile(0), BitBoardFile(7)>>)

black_pawn_attack_map ==
    generate_from_offsets(<<-7, -9>>, <<BitBoardFile(7), BitBoardFile(0)>>)

(***************************************************************************)
(* GameState                                                               *)
(***************************************************************************)
union(side) ==
    side.pawn \cup side.knight \cup side.bishop \cup side.rook \cup side.queen \cup side.king

\* (friendly, enemy) of the side to move
split_boards(state) ==
    IF state.flags.active_color = "White"
    THEN <<state.boards.white, state.boards.black>>
    ELSE <<state.boards.black, state.boards.white>>

SideOf(state, color) == IF color = "White" THEN state.boards.white ELSE state.boards.black

(***************************************************************************)
(* Move generator                                                          *)
(***************************************************************************)
MoveGeneratorContext(state) ==
    LET sb == split_boards(state)
    IN [state |-> state,
        friendly_pieces |-> sb[1],
        enemy_pieces |-> sb[2],
        friendly_occupation |-> union(sb[1]),
        enemy_occupation |-> union(sb[2])]

capture_in_increasing_direction(direction, targets, blocking) ==
    LET friendly_sb == get_first_square(direction \cap blocking)
        target_sb == get_first_square(direction \cap targets)
    IN \/ (friendly_sb = None /\ target_sb # None)
       \/ (friendly_sb # None /\ target_sb # None /\ target_sb < friendly_sb)

capture_in_decreasing_direction(direction, targets, blocking) ==
    LET friendly_sb == get_last_square(direction \cap blocking)
        target_sb == get_last_square(direction \cap targets)
    IN \/ (friendly_sb = None /\ target_sb # None)
       \/ (friendly_sb # None /\ target_sb # None /\ target_sb > friendly_sb)

\* is_square_attacked once the boards of the attacking side and the occupation of
\* the defending side have been taken from the state
IsAttackedBy(square, attack_map, attacking_pieces, defending_occupation) ==
    LET blocking_bishop_queen_rook ==
            defending_occupation \cup attacking_pieces.pawn \cup attacking_pieces.knight
                \cup attacking_pieces.king
        blocking_bishop_queen == blocking_bishop_queen_rook \cup attacking_pieces.rook
        blocking_rook_queen == blocking_bishop_queen_rook \cup attacking_pieces.bishop
        attacking_bishops_and_queens == attacking_pieces.bishop \cup attacking_pieces.queen
        enemy_rooks_and_queens == attacking_pieces.rook \cup attacking_pieces.queen
    IN \/ capture_in_increasing_direction(ne_diagonal_map[square],
              attacking_bishops_and_queens, blocking_bishop_queen)
       \/ capture_in_increasing_direction(nw_diagonal_map[square],
              attacking_bishops_and_queens, blocking_bishop_queen)
       \/ capture_in_decreasing_direction(se_diagonal_map[square],
              attacking_bishops_and_queens, blocking_bishop_queen)
       \/ capture_in_decreasing_direction(sw_diagonal_map[square],
              attacking_bishops_and_queens, blocking_bishop_queen)
       \/ capture_in_increasing_direction(n_file_map[square],
              enemy_rooks_and_queens, blocking_rook_queen)
       \/ capture_in_decreasing_direction(s_file_map[square],
              enemy_rooks_and_queens, blocking_rook_queen)
       \/ capture_in_increasing_direction(e_rank_map[square],
              enemy_rooks_and_queens, blocking_rook_queen)
       \/ capture_in_decreasing_direction(w_rank_map[square],
              enemy_rooks_and_queens, blocking_rook_queen)
       \/ (attack_map[square] \cap attacking_pieces.pawn) # {}
       \/ (knight_map[square] \cap attacking_pieces.knight) # {}
       \/ (king_map[square] \cap attacking_pieces.king) # {}

\* is_square_attacked that looks for pawns along the attacker's own capture
\* directions instead of the reversed ones
is_square_attacked_forward_pawn_map(state, square, by_color) ==
    IsAttackedBy(square,
                 IF by_color = "White" THEN white_pawn_attack_map ELSE black_pawn_attack_map,
                 SideOf(state, by_color), union(SideOf(state, Not(by_color))))

is_square_attacked(state, square, by_color) ==
    IsAttackedBy(square,
                 IF by_color = "White" THEN black_pawn_attack_map ELSE white_pawn_attack_map,
                 SideOf(state, by_color), union(SideOf(state, Not(by_color))))

\* captures first, then quiet moves, each in increasing square order
LeaperMoves(ctx, from, map) ==
    LET to_board == map[from] \ ctx.friendly_occupation
        to_capture == to_board \cap ctx.enemy_occupation
        to_quiet == to_board \ ctx.enemy_occupation
        cs == PopFirstOrder(to_capture)
        qs == PopFirstOrder(to_quiet)
    IN [i \in 1..Len(cs) |-> MoveNew(from, cs[i], "Capture")]
       \o [i \in 1..Len(qs) |-> MoveNew(from, qs[i], "QuietMove")]

get_pseudo_legal_knight_moves(ctx) ==
    LET knights == PopFirstOrder(ctx.friendly_pieces.knight)
    IN Flatten([i \in 1..Len(knights) |-> LeaperMoves(ctx, knights[i], knight_map)])

\* the match on (friendly_sb, enemy_sb): <<blocking_sb, capture_square>>
BlockingAndCapture(friendly_sb, enemy_sb, enemy_comes_first) ==
    CASE friendly_sb = None /\ enemy_sb = None -> <<None, None>>
      [] friendly_sb = None /\ enemy_sb # None -> <<enemy_sb, enemy_sb>>
      [] friendly_sb # None /\ enemy_sb = None -> <<friendly_sb, None>>
      [] OTHER -> IF enemy_comes_first THEN <<enemy_sb, enemy_sb>>
                  ELSE <<friendly_sb, None>>

\* the capture, if any, and then a quiet move to each of the squares qs
CaptureThenQuiet(from, capture_square, qs) ==
    (IF capture_square # None THEN <<MoveNew(from, capture_square, "Capture")>> ELSE <<>>)
    \o [i \in 1..Len(qs) |-> MoveNew(from, qs[i], "QuietMove")]

\* quiet moves up to and onto the blocking square
IncreasingMovesOntoBlocker(direction, from, blocking_sb, capture_square) ==
    CaptureThenQuiet(from, capture_square,
        PopFirstOrder({to \in direction : blocking_sb = None \/ to <= blocking_sb}))

IncreasingMoves(direction, from, blocking_sb, capture_square) ==
    CaptureThenQuiet(from, capture_square,
        PopFirstOrder({to \in direction : blocking_sb = None \/ to < blocking_sb}))

DecreasingMoves(direction, from, blocking_sb, capture_square) ==
    CaptureThenQuiet(from, capture_square,
        PopLastOrder({to \in direction : blocking_sb = None \/ to > blocking_sb}))

IncreasingFrom(direction, from, friendly_sb, enemy_sb) ==
    IncreasingMoves(direction, from,
        BlockingAndCapture(friendly_sb, enemy_sb, enemy_sb < friendly_sb)[1],
        BlockingAndCapture(friendly_sb, enemy_sb, enemy_sb < friendly_sb)[2])

DecreasingFrom(direction, from, friendly_sb, enemy_sb) ==
    DecreasingMoves(direction, from,
        BlockingAndCapture(friendly_sb, enemy_sb, enemy_sb > friendly_sb)[1],
        BlockingAndCapture(friendly_sb, enemy_sb, enemy_sb > friendly_sb)[2])

get_pseudo_legal_moves_in_increasing_direction(ctx, direction, from) ==
    IncreasingFrom(direction, from,
        get_first_square(ctx.friendly_occupation \cap direction),
        get_first_square(ctx.enemy_occupation \cap direction))

get_pseudo_legal_moves_in_decreasing_direction(ctx, direction, from) ==
    DecreasingFrom(direction, from,
        get_last_square(ctx.friendly_occupation \cap direction),
        get_last_square(ctx.enemy_occupation \cap direction))

get_pseudo_legal_diagonal_moves(ctx, pieces) ==
    LET ps == PopFirstOrder(pieces)
    IN Flatten([i \in 1..Len(ps) |->
          get_pseudo_legal_moves_in_increasing_direction(ctx, ne_diagonal_map[ps[i]], ps[i])
          \o get_pseudo_legal_moves_in_increasing_direction(ctx, nw_diagonal_map[ps[i]], ps[i])
          \o get_pseudo_legal_moves_in_decreasing_direction(ctx, se_diagonal_map[ps[i]], ps[i])
          \o get_pseudo_legal_moves_in_decreasing_direction(ctx, sw_diagonal_map[ps[i]], ps[i])])

get_pseudo_legal_rank_file_moves(ctx, pieces) ==
    LET ps == PopFirstOrder(pieces)
    IN Flatten([i \in 1..Len(ps) |->
          get_pseudo_legal_moves_in_increasing_direction(ctx, n_file_map[ps[i]], ps[i])
          \o get_pseudo_legal_moves_in_decreasing_direction(ctx, s_file_map[ps[i]], ps[i])
          \o get_pseudo_legal_moves_in_increasing_direction(ctx, e_rank_map[ps[i]], ps[i])
          \o get_pseudo_legal_moves_in_decreasing_direction(ctx, w_rank_map[ps[i]], ps[i])])

\* the promotions without the knight
ThreePromotions(from, to, capture) ==
    IF capture
    THEN <<MoveNew(from, to, "QueenPromotionCapture"), MoveNew(from, to, "RookPromotionCapture"),
           MoveNew(from, to, "BishopPromotionCapture")>>
    ELSE <<MoveNew(from, to, "QueenPromotion"), MoveNew(from, to, "RookPromotion"),
           MoveNew(from, to, "BishopPromotion")>>

FourPromotions(from, to, capture) ==
    IF capture
    THEN <<MoveNew(from, to, "QueenPromotionCapture"), MoveNew(from, to, "RookPromotionCapture"),
           MoveNew(from, to, "BishopPromotionCapture"), MoveNew(from, to, "KnightPromotionCapture")>>
    ELSE <<MoveNew(from, to, "QueenPromotion"), MoveNew(from, to, "RookPromotion"),
           MoveNew(from, to, "BishopPromotion"), MoveNew(from, to, "KnightPromotion")>>

PawnMovesFrom(ctx, from) ==
    LET white == ctx.state.flags.active_color = "White"
        unoccupied == Squares \ (ctx.friendly_occupation \cup ctx.enemy_occupation)
        passive_map == IF white THEN white_pawn_passive_map ELSE black_pawn_passive_map
        double_map == IF white THEN white_pawn_double_map ELSE black_pawn_double_map
        attack_map == IF white THEN white_pawn_attack_map ELSE black_pawn_attack_map
        will_promote == (white /\ from >= 48) \/ (~white /\ from < 16)
        passive_board == passive_map[from] \cap unoccupied
        double_board0 == double_map[from] \cap unoccupied
        double_board ==
            IF double_board0 # {}
            THEN double_board0 \cap (IF white THEN ShiftLeft(passive_board, 8)
                                     ELSE ShiftRight(passive_board, 8))
            ELSE double_board0
        attack_board == attack_map[from] \cap (ctx.enemy_occupation \cup ctx.state.en_passant)
        ps == PopFirstOrder(passive_board)
        ds == PopFirstOrder(double_board)
        as == PopFirstOrder(attack_board)
    IN Flatten([i \in 1..Len(ps) |->
            IF will_promote THEN FourPromotions(from, ps[i], FALSE)
            ELSE <<MoveNew(from, ps[i], "QuietMove")>>])
       \o [i \in 1..Len(ds) |-> MoveNew(from, ds[i], "DoublePawnPush")]
       \o Flatten([i \in 1..Len(as) |->
            IF will_promote THEN FourPromotions(from, as[i], TRUE)
            ELSE IF get_first_square(ctx.state.en_passant) = as[i]
                 THEN <<MoveNew(from, as[i], "EnPassant")>>
                 ELSE <<MoveNew(from, as[i], "Capture")>>])

get_pseudo_legal_pawn_moves(ctx) ==
    LET pawns == PopFirstOrder(ctx.friendly_pieces.pawn)
    IN Flatten([i \in 1..Len(pawns) |-> PawnMovesFrom(ctx, pawns[i])])

\* king.get_first_square().unwrap(): callers only generate for a side that has a king
get_pseudo_legal_king_moves(ctx) ==
    LeaperMoves(ctx, get_first_square(ctx.friendly_pieces.king), king_map)

\* castle generation that leaves out the test of the attacked squares
CastleIfUnoccupied(ctx, right, unoccupied_squares, unchecked_squares, by_color, m) ==
    LET all_pieces == ctx.friendly_occupation \cup ctx.enemy_occupation
        unoccupied == \A i \in unoccupied_squares : i \notin all_pieces
    IN IF right /\ unoccupied THEN <<m>> ELSE <<>>

CastleIfSafeDestination(ctx, right, unoccupied_squares, unchecked_squares, by_color, m) ==
    LET all_pieces == ctx.friendly_occupation \cup ctx.enemy_occupation
        unoccupied == \A i \in unoccupied_squares : i \notin all_pieces
        unchecked == \A i \in unchecked_squares \cup {m.to} :
                        ~is_square_attacked(ctx.state, i, by_color)
    IN IF right /\ unoccupied /\ unchecked THEN <<m>> ELSE <<>>

CastleIfWithoutRight(ctx, right, unoccupied_squares, unchecked_squares, by_color, m) ==
    LET all_pieces == ctx.friendly_occupation \cup ctx.enemy_occupation
        unoccupied == \A i \in unoccupied_squares : i \notin all_pieces
        unchecked == \A i \in unchecked_squares : ~is_square_attacked(ctx.state, i, by_color)
    IN IF by_color # ctx.state.flags.active_color /\ unoccupied /\ unchecked
       THEN <<m>> ELSE <<>>

CastleIf(ctx, right, unoccupied_squares, unchecked_squares, by_color, m) ==
    LET all_pieces == ctx.friendly_occupation \cup ctx.enemy_occupation
        unoccupied == \A i \in unoccupied_squares : i \notin all_pieces
        unchecked == \A i \in unchecked_squares : ~is_square_attacked(ctx.state, i, by_color)
    IN IF right /\ unoccupied /\ unchecked THEN <<m>> ELSE <<>>

get_pseudo_legal_castles(ctx) ==
    LET white == ctx.state.flags.active_color = "White"
        flags == ctx.state.flags
    IN CastleIf(ctx, white /\ flags.white_king_castle, {5, 6}, {4, 5}, "Black",
                MoveNew(4, 6, "KingCastle"))
       \o CastleIf(ctx, white /\ flags.white_queen_castle, {1, 2, 3}, {3, 4}, "Black",
                MoveNew(4, 2, "QueenCastle"))
       \o CastleIf(ctx, ~white /\ flags.black_king_castle, {61, 62}, {60, 61}, "White",
                MoveNew(60, 62, "KingCastle"))
       \o CastleIf(ctx, ~white /\ flags.black_queen_castle, {57, 58, 59}, {59, 60}, "White",
                MoveNew(60, 58, "QueenCastle"))

\* the moves in the order generate_pseudo_legal_moves adds them to the move list
PseudoLegalMoves(ctx) ==
    get_pseudo_legal_knight_moves(ctx)
    \o get_pseudo_legal_diagonal_moves(ctx, ctx.friendly_pieces.bishop)
    \o get_pseudo_legal_diagonal_moves(ctx, ctx.friendly_pieces.queen)
    \o get_pseudo_legal_rank_file_moves(ctx, ctx.friendly_pieces.rook)
    \o get_pseudo_legal_rank_file_moves(ctx, ctx.friendly_pieces.queen)
    \o get_pseudo_legal_pawn_moves(ctx)
    \o get_pseudo_legal_king_moves(ctx)
    \o get_pseudo_legal_castles(ctx)

get_pseudo_legal_moves(state) == PseudoLegalMoves(MoveGeneratorContext(state))

\* was_move_legal that looks at the king of the side to move
was_move_legal_of_active_king(state) ==
    IF state.flags.active_color = "White"
    THEN ~is_square_attacked(state, get_first_square(state.boards.white.king), "Black")
    ELSE ~is_square_attacked(state, get_first_square(state.boards.black.king), "White")

was_move_legal(state) ==
    IF state.flags.active_color = "White"
    THEN ~is_square_attacked(state, get_first_square(state.boards.black.king), "White")
    ELSE ~is_square_attacked(state, get_first_square(state.boards.white.king), "Black")

is_check(state) ==
    IF state.flags.active_color = "White"
    THEN is_square_attacked(state, get_first_square(state.boards.white.king), "Black")
    ELSE is_square_attacked(state, get_first_square(state.boards.black.king), "White")

(***************************************************************************)
(* Zobrist numbers and the from-scratch hash                               *)
(***************************************************************************)
\* board.<color>.<piece>[square]
ZobristPiece(color, piece, square) == {<<color, piece, square>>}

ZobristActiveColor == {<<"active_color", "", 0>>}

ZobristCastling(right) == {<<"castling", right, 0>>}

ZobristEnPassantFile(f) == {<<"en_passant_file", "", f>>}

\* a ^ b on Zobrist numbers
Xor(a, b) == {k \in a \cup b : ~(k \in a /\ k \in b)}

\* let mut b = board; while let Some(lsb) = b.pop_first_square() { hash ^= hash_board[lsb] }
\* the exclusive or of the numbers of the squares of the board: the keys are distinct
HashBoard(color, piece, b) == UNION {ZobristPiece(color, piece, lsb) : lsb \in b}

\* the boards of a side in as_array order
HashSide(color, side) ==
    Xor(Xor(Xor(HashBoard(color, "pawn", side.pawn), HashBoard(color, "knight", side.knight)),
            Xor(HashBoard(color, "bishop", side.bishop), HashBoard(color, "rook", side.rook))),
        Xor(HashBoard(color, "queen", side.queen), HashBoard(color, "king", side.king)))

hash(state) ==
    LET h0 == Xor(HashSide("White", state.boards.white), HashSide("Black", state.boards.black))
        h1 == IF Not(state.flags.active_color) = "White" THEN Xor(h0, ZobristActiveColor) ELSE h0
        h2 == IF state.flags.white_king_castle
              THEN Xor(h1, ZobristCastling("white_king_side")) ELSE h1
        h3 == IF state.flags.white_queen_castle
              THEN Xor(h2, ZobristCastling("white_queen_side")) ELSE h2
        h4 == IF state.flags.black_king_castle
              THEN Xor(h3, ZobristCastling("black_king_side")) ELSE h3
        h5 == IF state.flags.black_queen_castle
              THEN Xor(h4, ZobristCastling("black_queen_side")) ELSE h4
        lsb == get_first_square(state.en_passant)
    IN IF lsb # None THEN Xor(h5, ZobristEnPassantFile(file(lsb))) ELSE h5

(***************************************************************************)
(* MakeUnmaker: a record [state, zobrist_hash, irreversible_stack, panic]  *)
(***************************************************************************)
NoPanic == "none"

MakeUnmakerNew(state) ==
    [state |-> state, zobrist_hash |-> hash(state), irreversible_stack |-> <<>>,
     panic |-> NoPanic]

ColorField(color) == IF color = "White" THEN "white" ELSE "black"

\* the first board of the side, in as_array order, that has a bit of bb set (0: none)
FirstBoardWith(side, bb) ==
    IF \E i \in 1..6 : side[PieceOrder[i]] \cap bb # {}
    THEN CHOOSE i \in 1..6 : /\ side[PieceOrder[i]] \cap bb # {}
                             /\ \A j \in 1..(i - 1) : side[PieceOrder[j]] \cap bb = {}
    ELSE 0

\* the rank of the en passant square taken for its file
get_en_passant_rank(state) == get_first_square(state.en_passant) \div 8

get_en_passant_file(state) == get_first_square(state.en_passant) % 8

\* zobrist_hash ^= en_passant_file[..] when the en passant board is not empty
XorEnPassant(h, state) ==
    IF state.en_passant # {} THEN Xor(h, ZobristEnPassantFile(get_en_passant_file(state))) ELSE h

\* an update_flags that looks at the moving side's rights only
update_flags_own_rights_only(mu, m) ==
    LET f == mu.state.flags
        white == f.active_color = "White"
        ks == IF white THEN "white_king_castle" ELSE "black_king_castle"
        qs == IF white THEN "white_queen_castle" ELSE "black_queen_castle"
        t1 == f[ks] /\ m.from \in (IF white THEN {4, 7} ELSE {60, 63})
        t2 == f[qs] /\ m.from \in (IF white THEN {4, 0} ELSE {60, 56})
        h1 == IF t1 THEN Xor(mu.zobrist_hash,
                             ZobristCastling(IF white THEN "white_king_side"
                                             ELSE "black_king_side"))
              ELSE mu.zobrist_hash
        h2 == IF t2 THEN Xor(h1, ZobristCastling(IF white THEN "white_queen_side"
                                                 ELSE "black_queen_side"))
              ELSE h1
    IN [mu EXCEPT !.state.flags = [f EXCEPT ![ks] = @ /\ ~t1, ![qs] = @ /\ ~t2,
                                            !.active_color = Not(f.active_color)],
                  !.zobrist_hash = Xor(h2, ZobristActiveColor)]

update_flags(mu, m) ==
    LET f == mu.state.flags
        white == f.active_color = "White"
        \* own king side right
        ks == IF white THEN "white_king_castle" ELSE "black_king_castle"
        qs == IF white THEN "white_queen_castle" ELSE "black_queen_castle"
        eks == IF white THEN "black_king_castle" ELSE "white_king_castle"
        eqs == IF white THEN "black_queen_castle" ELSE "white_queen_castle"
        zks == IF white THEN "white_king_side" ELSE "black_king_side"
        zqs == IF white THEN "white_queen_side" ELSE "black_queen_side"
        zeks == IF white THEN "black_king_side" ELSE "white_king_side"
        zeqs == IF white THEN "black_queen_side" ELSE "white_queen_side"
        king_sq == IF white THEN 4 ELSE 60
        krook_sq == IF white THEN 7 ELSE 63
        qrook_sq == IF white THEN 0 ELSE 56
        ekrook_sq == IF white THEN 63 ELSE 7
        eqrook_sq == IF white THEN 56 ELSE 0
        t1 == f[ks] /\ (m.from = king_sq \/ m.from = krook_sq)
        f1 == IF t1 THEN [f EXCEPT ![ks] = ~f[ks]] ELSE f
        h1 == IF t1 THEN Xor(mu.zobrist_hash, ZobristCastling(zks)) ELSE mu.zobrist_hash
        t2 == f1[qs] /\ (m.from = king_sq \/ m.from = qrook_sq)
        f2 == IF t2 THEN [f1 EXCEPT ![qs] = ~f1[qs]] ELSE f1
        h2 == IF t2 THEN Xor(h1, ZobristCastling(zqs)) ELSE h1
        t3 == is_capture(m) /\ m.to = eqrook_sq /\ f2[eqs]
        t4 == is_capture(m) /\ ~t3 /\ m.to = ekrook_sq /\ f2[eks]
        f3 == IF t3 THEN [f2 EXCEPT ![eqs] = ~f2[eqs]]
              ELSE IF t4 THEN [f2 EXCEPT ![eks] = ~f2[eks]] ELSE f2
        h3 == IF t3 THEN Xor(h2, ZobristCastling(zeqs))
              ELSE IF t4 THEN Xor(h2, ZobristCastling(zeks)) ELSE h2
        f4 == [f3 EXCEPT !.active_color = Not(f3.active_color)]
        h4 == Xor(h3, ZobristActiveColor)
    IN [mu EXCEPT !.state.flags = f4, !.zobrist_hash = h4]

\* a make_castle that moves the king and leaves the rook in its corner
make_castle_king_only(mu, m) ==
    LET white == mu.state.flags.active_color = "White"
        color == mu.state.flags.active_color
        king_from == IF white THEN 4 ELSE 60
        king_to == IF m.code = "KingCastle" THEN (IF white THEN 6 ELSE 62)
                   ELSE (IF white THEN 2 ELSE 58)
    IN [mu EXCEPT !.state.boards[ColorField(color)].king = {king_to},
                  !.zobrist_hash =
                      Xor(@, Xor(ZobristPiece(color, "king", king_to),
                                 ZobristPiece(color, "king", king_from)))]

make_castle(mu, m) ==
    LET white == mu.state.flags.active_color = "White"
        color == mu.state.flags.active_color
        cf == ColorField(color)
        king_from == IF white THEN 4 ELSE 60
        king_to == IF m.code = "KingCastle" THEN (IF white THEN 6 ELSE 62)
                   ELSE (IF white THEN 2 ELSE 58)
        rook_from == IF m.code = "KingCastle" THEN (IF white THEN 7 ELSE 63)
                     ELSE (IF white THEN 0 ELSE 56)
        rook_to == IF m.code = "KingCastle" THEN (IF white THEN 5 ELSE 61)
                   ELSE (IF white THEN 3 ELSE 59)
        side == mu.state.boards[cf]
        side1 == [side EXCEPT !.king = {king_to},
                              !.rook = (side.rook \ {rook_from}) \cup {rook_to}]
        h == Xor(mu.zobrist_hash,
                 Xor(Xor(ZobristPiece(color, "king", king_to), ZobristPiece(color, "king", king_from)),
                     Xor(ZobristPiece(color, "rook", rook_from), ZobristPiece(color, "rook", rook_to))))
    IN [mu EXCEPT !.state.boards[cf] = side1, !.zobrist_hash = h]

\* returns [mu, captured]: the mutated MakeUnmaker and the Option<PieceType> ("none": None)
make_non_castle(mu, m) ==
    LET white_to_play == mu.state.flags.active_color = "White"
        friendly == mu.state.flags.active_color
        enemy == Not(friendly)
        ff == ColorField(friendly)
        ef == ColorField(enemy)
        \* en passant
        h1 == XorEnPassant(mu.zobrist_hash, mu.state)
        en_passant == IF m.code = "DoublePawnPush"
                      THEN (IF white_to_play THEN {m.from + 8} ELSE {m.from - 8})
                      ELSE {}
        h2 == IF en_passant # {}
              THEN Xor(h1, ZobristEnPassantFile(get_first_square(en_passant) % 8)) ELSE h1
        from_board == {m.from}
        to_board == {m.to}
        fb0 == mu.state.boards[ff]
        eb0 == mu.state.boards[ef]
        \* remove the friendly piece from from_board
        i == FirstBoardWith(fb0, from_board)
        fb1 == IF i # 0 THEN [fb0 EXCEPT ![PieceOrder[i]] = @ \ from_board] ELSE fb0
        h3 == IF i # 0 THEN Xor(h2, ZobristPiece(friendly, PieceOrder[i], m.from)) ELSE h2
        \* moved_piece_board is a temporary and moved_piece_zobrist all zero when i = 0
        fb2 == IF ~is_promotion(m)
               THEN (IF i # 0 THEN [fb1 EXCEPT ![PieceOrder[i]] = @ \cup to_board] ELSE fb1)
               ELSE [fb1 EXCEPT ![promotion(m)] = @ \cup to_board]
        h4 == IF ~is_promotion(m)
              THEN (IF i # 0 THEN Xor(h3, ZobristPiece(friendly, PieceOrder[i], m.to)) ELSE h3)
              ELSE Xor(h3, ZobristPiece(friendly, promotion(m), m.to))
        temp_to == IF m.code = "EnPassant"
                   THEN (IF white_to_play THEN m.to - 8 ELSE m.to + 8)
                   ELSE m.to
        temp_to_board == IF m.code = "EnPassant"
                         THEN (IF white_to_play THEN ShiftRight(to_board, 8)
                               ELSE ShiftLeft(to_board, 8))
                         ELSE to_board
        k == IF is_capture(m) THEN FirstBoardWith(eb0, temp_to_board) ELSE 0
        eb1 == IF k # 0 THEN [eb0 EXCEPT ![PieceOrder[k]] = @ \ temp_to_board] ELSE eb0
        h5 == IF k # 0 THEN Xor(h4, ZobristPiece(enemy, PieceOrder[k], temp_to)) ELSE h4
    IN [mu |-> [mu EXCEPT !.state.en_passant = en_passant,
                          !.state.boards[ff] = fb2,
                          !.state.boards[ef] = eb1,
                          !.zobrist_hash = h5],
        captured |-> IF k # 0 THEN PieceOrder[k] ELSE "none"]

\* a make_move whose castles leave the en-passant square as it was
make_move_castle_keeps_en_passant(mu, m) ==
    With(IF is_castle(m)
         THEN [mu |-> make_castle(mu, m), captured |-> "none"]
         ELSE make_non_castle(mu, m),
         LAMBDA r :
            update_flags([r.mu EXCEPT !.irreversible_stack =
                                          Append(@, [halfmove |-> mu.state.halfmove,
                                                     en_passant |-> mu.state.en_passant,
                                                     flags |-> mu.state.flags,
                                                     captured_piece_type |-> r.captured]),
                                      !.state.halfmove = (@ + 1) % 256],
                         m))

\* a make_move that pushes the frame without the captured piece type
make_move_forgets_captured(mu, m) ==
    With(IF is_castle(m)
         THEN With(make_castle(mu, m), LAMBDA c :
                 [mu |-> [c EXCEPT !.zobrist_hash = XorEnPassant(c.zobrist_hash, c.state),
                                   !.state.en_passant = {}],
                  captured |-> "none"])
         ELSE make_non_castle(mu, m),
         LAMBDA r :
            update_flags([r.mu EXCEPT !.irreversible_stack =
                                          Append(@, [halfmove |-> mu.state.halfmove,
                                                     en_passant |-> mu.state.en_passant,
                                                     flags |-> mu.state.flags,
                                                     captured_piece_type |-> "none"]),
                                      !.state.halfmove = (@ + 1) % 256],
                         m))

make_move(mu, m) ==
    With(IF is_castle(m)
         THEN With(make_castle(mu, m), LAMBDA c :
                 [mu |-> [c EXCEPT !.zobrist_hash = XorEnPassant(c.zobrist_hash, c.state),
                                   !.state.en_passant = {}],
                  captured |-> "none"])
         ELSE make_non_castle(mu, m),
         LAMBDA r :
            \* u8: the increment overflows at 255 (a panic in a debug build, a wrap otherwise)
            update_flags([r.mu EXCEPT !.irreversible_stack =
                                          Append(@, [halfmove |-> mu.state.halfmove,
                                                     en_passant |-> mu.state.en_passant,
                                                     flags |-> mu.state.flags,
                                                     captured_piece_type |-> r.captured]),
                                      !.state.halfmove = (@ + 1) % 256],
                         m))

\* an unmake_castle that puts the king back and leaves the rook where it is
unmake_castle_king_only(mu, m) ==
    LET white == mu.state.flags.active_color # "White"
        color == Not(mu.state.flags.active_color)
        king_from == IF white THEN 4 ELSE 60
        king_to == IF m.code = "KingCastle" THEN (IF white THEN 6 ELSE 62)
                   ELSE (IF white THEN 2 ELSE 58)
    IN [mu EXCEPT !.state.boards[ColorField(color)].king = {king_from},
                  !.zobrist_hash =
                      Xor(@, Xor(ZobristPiece(color, "king", king_to),
                                 ZobristPiece(color, "king", king_from)))]

unmake_castle(mu, m) ==
    LET \* the side that has moved is the one not to play
        white == mu.state.flags.active_color # "White"
        color == Not(mu.state.flags.active_color)
        cf == ColorField(color)
        king_from == IF white THEN 4 ELSE 60
        king_to == IF m.code = "KingCastle" THEN (IF white THEN 6 ELSE 62)
                   ELSE (IF white THEN 2 ELSE 58)
        rook_from == IF m.code = "KingCastle" THEN (IF white THEN 7 ELSE 63)
                     ELSE (IF white THEN 0 ELSE 56)
        rook_to == IF m.code = "KingCastle" THEN (IF white THEN 5 ELSE 61)
                   ELSE (IF white THEN 3 ELSE 59)
        side == mu.state.boards[cf]
        side1 == [side EXCEPT !.king = {king_from},
                              !.rook = (side.rook \ {rook_to}) \cup {rook_from}]
        h1 == Xor(mu.zobrist_hash,
                  Xor(ZobristPiece(color, "king", king_to), ZobristPiece(color, "king", king_from)))
        h2 == Xor(h1, Xor(ZobristPiece(color, "rook", rook_to), ZobristPiece(color, "rook", rook_from)))
    IN [mu EXCEPT !.state.boards[cf] = side1, !.zobrist_hash = h2]

unmake_non_castle(mu, m, irreversible_info) ==
    LET white_to_play == mu.state.flags.active_color = "White"
        \* split_boards_mut gives (active, passive): the mover is the passive side
        enemy == mu.state.flags.active_color
        friendly == Not(enemy)
        ff == ColorField(friendly)
        ef == ColorField(enemy)
        from_board == {m.from}
        to_board == {m.to}
        fb0 == mu.state.boards[ff]
        eb0 == mu.state.boards[ef]
        i == FirstBoardWith(fb0, to_board)
        fb1 == IF i # 0 THEN [fb0 EXCEPT ![PieceOrder[i]] = @ \ to_board] ELSE fb0
        h1 == IF i # 0 THEN Xor(mu.zobrist_hash, ZobristPiece(friendly, PieceOrder[i], m.to))
              ELSE mu.zobrist_hash
        fb2 == IF ~is_promotion(m)
               THEN (IF i # 0 THEN [fb1 EXCEPT ![PieceOrder[i]] = @ \cup from_board] ELSE fb1)
               ELSE [fb1 EXCEPT !.pawn = @ \cup from_board]
        h2 == IF ~is_promotion(m)
              THEN (IF i # 0 THEN Xor(h1, ZobristPiece(friendly, PieceOrder[i], m.from)) ELSE h1)
              ELSE Xor(h1, ZobristPiece(friendly, "pawn", m.from))
        temp_to == IF m.code = "EnPassant"
                   THEN (IF white_to_play THEN m.to + 8 ELSE m.to - 8)
                   ELSE m.to
        temp_to_board == IF m.code = "EnPassant"
                         THEN (IF white_to_play THEN ShiftLeft(to_board, 8)
                               ELSE ShiftRight(to_board, 8))
                         ELSE to_board
        cap == irreversible_info.captured_piece_type
        restore == is_capture(m) /\ cap # "none"
        eb1 == IF restore THEN [eb0 EXCEPT ![cap] = @ \cup temp_to_board] ELSE eb0
        h3 == IF restore THEN Xor(h2, ZobristPiece(enemy, cap, temp_to)) ELSE h2
    IN [mu EXCEPT !.state.boards[ff] = fb2,
                  !.state.boards[ef] = eb1,
                  !.zobrist_hash = h3,
                  !.panic = IF is_capture(m) /\ cap = "none"
                            THEN "No captured piece type in irreversible info" ELSE @]

FlagDiffHash(h, a, b) ==
    LET h1 == IF a.white_king_castle # b.white_king_castle
              THEN Xor(h, ZobristCastling("white_king_side")) ELSE h
        h2 == IF a.white_queen_castle # b.white_queen_castle
              THEN Xor(h1, ZobristCastling("white_queen_side")) ELSE h1
        h3 == IF a.black_king_castle # b.black_king_castle
              THEN Xor(h2, ZobristCastling("black_king_side")) ELSE h2
    IN IF a.black_queen_castle # b.black_queen_castle
       THEN Xor(h3, ZobristCastling("black_queen_side")) ELSE h3

\* a pop that leaves the frame on the stack
irreversible_stack_peek(stack) ==
    IF stack = <<>> THEN [some |-> FALSE, stack |-> stack]
    ELSE [some |-> TRUE, info |-> stack[Len(stack)], stack |-> stack]

\* a pop that gives a default frame when the stack is empty
irreversible_stack_pop_or_default(stack) ==
    IF stack = <<>>
    THEN [some |-> TRUE,
          info |-> [halfmove |-> 0, en_passant |-> {},
                    flags |-> [active_color |-> "White", white_king_castle |-> FALSE,
                               white_queen_castle |-> FALSE, black_king_castle |-> FALSE,
                               black_queen_castle |-> FALSE],
                    captured_piece_type |-> "pawn"],
          stack |-> stack]
    ELSE [some |-> TRUE, info |-> stack[Len(stack)],
          stack |-> SubSeq(stack, 1, Len(stack) - 1)]

\* self.irreversible_stack.pop(): [some, info, stack]
irreversible_stack_pop(stack) ==
    IF stack = <<>> THEN [some |-> FALSE, stack |-> stack]
    ELSE [some |-> TRUE, info |-> stack[Len(stack)],
          stack |-> SubSeq(stack, 1, Len(stack) - 1)]

\* unmake_move after unmake_castle or unmake_non_castle
RestoreIrreversible(u, irreversible_info) ==
    IF u.panic # NoPanic THEN u
    ELSE With([u.state EXCEPT !.halfmove = irreversible_info.halfmove,
                              !.en_passant = irreversible_info.en_passant],
              LAMBDA s1 :
                 [u EXCEPT !.state = [s1 EXCEPT !.flags = irreversible_info.flags],
                           !.zobrist_hash =
                               FlagDiffHash(Xor(XorEnPassant(XorEnPassant(u.zobrist_hash,
                                                                          u.state),
                                                             s1),
                                                ZobristActiveColor),
                                            s1.flags, irreversible_info.flags)])

unmake_move(mu, m) ==
    With(irreversible_stack_pop(mu.irreversible_stack), LAMBDA top :
       IF ~top.some
       THEN \* .unwrap() of None: the call panics here
            [mu EXCEPT !.panic = "unwrap on None"]
       ELSE RestoreIrreversible(
                IF is_castle(m)
                THEN unmake_castle([mu EXCEPT !.irreversible_stack = top.stack], m)
                ELSE unmake_non_castle([mu EXCEPT !.irreversible_stack = top.stack], m,
                                       top.info),
                top.info))

(***************************************************************************)
(* MoveList: a record [moves, ply_first_move, current_ply, total_count,     *)
(* panic].  The two fixed arrays are kept as the prefix that has been       *)
(* written so far: moves[i] of the code is moves[i + 1] here, and           *)
(* ply_first_move[p] of the code (p >= 1) is ply_first_move[p] here.  A     *)
(* slot is never read before it is written.                                 *)
(***************************************************************************)
MOVES_CAPACITY == 2048

PLY_CAPACITY == 128

\* Option<Move>: None is <<>>, Some(m) is <<m>>
NoMove == <<>>

Some(m) == <<m>>

\* array[i] = v on the written prefix (i counted from 1, i <= Len + 1)
SetAt(array, i, v) == IF i > Len(array) THEN Append(array, v) ELSE [array EXCEPT ![i] = v]

MoveListNew ==
    [moves |-> <<>>, ply_first_move |-> <<>>, current_ply |-> 0, total_count |-> 0,
     panic |-> NoPanic]

add_move_to_ply(ml, m) ==
    IF ml.panic # NoPanic THEN ml
    ELSE IF ml.current_ply = 0
    THEN [ml EXCEPT !.panic = "assertion failed: self.current_ply != 0"]
    ELSE IF ml.total_count >= MOVES_CAPACITY
    THEN [ml EXCEPT !.panic = "index out of bounds"]
    ELSE [ml EXCEPT !.moves = SetAt(@, ml.total_count + 1, m),
                    !.total_count = @ + 1]

get_ply_number(ml) == ml.current_ply

\* requires ply != 0 (an assertion in the code)
get_ply_size(ml, ply) ==
    LET first_move_index == ml.ply_first_move[ply]
        next_ply_first_move == IF ply = ml.current_ply THEN ml.total_count
                               ELSE ml.ply_first_move[ply + 1]
    IN next_ply_first_move - first_move_index

\* requires ply != 0, ply <= current_ply and index < get_ply_size(ply)
get_move(ml, ply, index) == ml.moves[ml.ply_first_move[ply] + index + 1]

new_ply(ml) ==
    IF ml.panic # NoPanic THEN ml
    ELSE IF ml.current_ply + 1 >= PLY_CAPACITY
    THEN [ml EXCEPT !.current_ply = @ + 1, !.panic = "index out of bounds"]
    ELSE [ml EXCEPT !.current_ply = @ + 1,
                    !.ply_first_move = SetAt(@, ml.current_ply + 1, ml.total_count)]

\* requires current_ply != 0
get_current_ply(ml) ==
    SubSeq(ml.moves, ml.ply_first_move[ml.current_ply] + 1, ml.total_count)

\* a drop that forgets to give the moves of the ply back
drop_current_ply_keeps_moves(ml) ==
    IF ml.panic # NoPanic THEN ml
    ELSE IF ml.current_ply = 0
    THEN [ml EXCEPT !.panic = "assertion failed: self.current_ply != 0"]
    ELSE [ml EXCEPT !.current_ply = @ - 1]

drop_current_ply(ml) ==
    IF ml.panic # NoPanic THEN ml
    ELSE IF ml.current_ply = 0
    THEN [ml EXCEPT !.panic = "assertion failed: self.current_ply != 0"]
    ELSE [ml EXCEPT !.total_count = ml.ply_first_move[ml.current_ply],
                    !.current_ply = @ - 1]

\* ply.swap(i, j), indexes counted from 1
Swap(ply, i, j) == [ply EXCEPT ![i] = ply[j], ![j] = ply[i]]

\* for i in range { if !ply[i].is_quiet() { ply.swap(i, sorted_index); sorted_index += 1 } }
RECURSIVE OrderLoudFirst(_, _, _)
OrderLoudFirst(ply, i, sorted_index) ==
    IF i > Len(ply) THEN ply
    ELSE IF ~is_quiet(ply[i])
    THEN OrderLoudFirst(Swap(ply, i, sorted_index + 1), i + 1, sorted_index + 1)
    ELSE OrderLoudFirst(ply, i + 1, sorted_index)

\* order_ply that places the first move and leaves the rest as generated
order_ply_first_move_only(ml, first) ==
    IF ml.panic # NoPanic THEN ml
    ELSE IF ml.current_ply = 0
    THEN [ml EXCEPT !.panic = "assertion failed: self.current_ply != 0"]
    ELSE
    LET ply == get_current_ply(ml)
        found == IF first = NoMove THEN {} ELSE {i \in 1..Len(ply) : ply[i] = first[1]}
        ply1 == IF found # {} THEN Swap(ply, get_first_square(found), 1) ELSE ply
        first_move_index == ml.ply_first_move[ml.current_ply]
    IN [ml EXCEPT !.moves = [i \in 1..Len(ml.moves) |->
                                IF i > first_move_index /\ i <= ml.total_count
                                THEN ply1[i - first_move_index] ELSE ml.moves[i]]]

order_ply(ml, first) ==
    IF ml.panic # NoPanic THEN ml
    ELSE IF ml.current_ply = 0
    THEN [ml EXCEPT !.panic = "assertion failed: self.current_ply != 0"]
    ELSE
    LET ply == get_current_ply(ml)
        found == IF first = NoMove THEN {} ELSE {i \in 1..Len(ply) : ply[i] = first[1]}
        ply1 == IF found # {} THEN Swap(ply, get_first_square(found), 1) ELSE ply
        sorted_index == IF found # {} THEN 1 ELSE 0
        ply2 == OrderLoudFirst(ply1, sorted_index + 1, sorted_index)
        first_move_index == ml.ply_first_move[ml.current_ply]
    IN [ml EXCEPT !.moves = [i \in 1..Len(ml.moves) |->
                                IF i > first_move_index /\ i <= ml.total_count
                                THEN ply2[i - first_move_index] ELSE ml.moves[i]]]

\* add_move_to_ply for every move of ms in turn: the first add fails when there is
\* no current ply, the add that finds the array full fails.
add_moves_to_ply(ml, ms, n) ==
    IF ml.panic # NoPanic \/ Len(ms) = 0 THEN ml
    ELSE IF ml.current_ply = 0
    THEN [ml EXCEPT !.panic = "assertion failed: self.current_ply != 0"]
    ELSE [ml EXCEPT !.moves = [i \in 1..(IF Len(ml.moves) > ml.total_count + n
                                          THEN Len(ml.moves) ELSE ml.total_count + n) |->
                                  IF i > ml.total_count /\ i <= ml.total_count + n
                                  THEN ms[i - ml.total_count] ELSE ml.moves[i]],
                    !.total_count = @ + n,
                    !.panic = IF Len(ms) > n THEN "index out of bounds" ELSE @]

\* the moves of ms that still fit into the array
Room(ml, ms) ==
    IF Len(ms) <= MOVES_CAPACITY - ml.total_count THEN Len(ms)
    ELSE MOVES_CAPACITY - ml.total_count

AddAll(ml, ms) == add_moves_to_ply(ml, ms, Room(ml, ms))

\* move_generator.get_pseudo_legal_moves(state, move_list): every generated move is
\* added to the current ply with add_move_to_ply, in generation order.
generate_pseudo_legal_moves(state, ml) == AddAll(ml, get_pseudo_legal_moves(state))

(***************************************************************************)
(* TranspositionTable: the table is the function from the indexes that have *)
(* been stored to their entry; every other slot holds None.                 *)
(***************************************************************************)
TABLE_SIZE == 1048576

TtEntry(h, depth, score, best_move) ==
    [hash |-> h, depth |-> depth, score |-> score, best_move |-> best_move]

\* Option<&TtEntry>: None is <<>>, Some(e) is <<e>>
TranspositionTableNew == <<>>

\* a store that keeps the deeper entry
store_depth_preferred(table, entry) ==
    LET index == entry.hash % TABLE_SIZE
    IN IF index \in DOMAIN table /\ table[index].depth > entry.depth THEN table
       ELSE [i \in DOMAIN table \cup {index} |-> IF i = index THEN entry ELSE table[i]]

store(table, entry) ==
    LET index == entry.hash % TABLE_SIZE
    IN [i \in DOMAIN table \cup {index} |-> IF i = index THEN entry ELSE table[i]]

\* a get that trusts the slot
get_without_hash_check(table, h) ==
    LET index == h % TABLE_SIZE
    IN IF index \in DOMAIN table THEN <<table[index]>> ELSE <<>>

get(table, h) ==
    LET index == h % TABLE_SIZE
    IN IF index \in DOMAIN table /\ table[index].hash = h THEN <<table[index]>> ELSE <<>>

(***************************************************************************)
(* The u64 value of a Zobrist number.  The 781 numbers come from a seeded   *)
(* generator; the model gives every key a fixed 30-bit number and computes  *)
(* the exclusive or of the numbers of the keys of a hash bit by bit.        *)
(***************************************************************************)
PieceIndex(piece) == CHOOSE i \in 1..6 : PieceOrder[i] = piece

ZobristKeyIndex(key) ==
    CASE key[1] = "White" -> (PieceIndex(key[2]) - 1) * 64 + key[3]
      [] key[1] = "Black" -> 384 + (PieceIndex(key[2]) - 1) * 64 + key[3]
      [] key[1] = "active_color" -> 768
      [] key[1] = "castling" ->
            (CASE key[2] = "white_king_side" -> 769
               [] key[2] = "white_queen_side" -> 770
               [] key[2] = "black_king_side" -> 771
               [] OTHER -> 772)
      [] OTHER -> 773 + key[3]

\* a number below 2^30 for every key
ZobristNumber(key) == (ZobristKeyIndex(key) * 2654435 + 40503) % (2 ^ 30)

AsU64(h) ==
    LET bit(b) == Cardinality({k \in h : (ZobristNumber(k) \div (2 ^ b)) % 2 = 1}) % 2
        RECURSIVE Value(_)
        Value(b) == IF b = 30 THEN 0 ELSE bit(b) * (2 ^ b) + Value(b + 1)
    IN Value(0)

(***************************************************************************)
(* Evaluation.  A SearchContext is a record [make_unmaker, move_list,       *)
(* transpos, max_depth]; an operation that returns a value and mutates the  *)
(* context gives [ret, ctx].                                                *)
(***************************************************************************)
DOUBLED_PAWN_COEF == 40

ISOLATED_PAWN_COEF == 40

MOBILITY_COEF == 5

CHECKMATE_SCORE == -100000

column(number) == BitBoardFile(number)

count_ones(b) == Cardinality(b)

\* the sum of f[i] for i in lo..hi
RECURSIVE SumOver(_, _, _)
SumOver(f, lo, hi) == IF lo > hi THEN 0 ELSE f[lo] + SumOver(f, lo + 1, hi)

doubled_pawn_number(state) ==
    LET sb == split_boards(state)
        active_pawns == sb[1].pawn
        passive_pawns == sb[2].pawn
        doubled(pawns) ==
            SumOver([col \in 0..7 |-> IF column(col) \cap pawns # {}
                                      THEN count_ones(column(col) \cap pawns) - 1 ELSE 0], 0, 7)
    IN doubled(passive_pawns) - doubled(active_pawns)

isolated_pawn_number(state) ==
    LET sb == split_boards(state)
        active_pawns == sb[1].pawn
        passive_pawns == sb[2].pawn
        isolated(pawns) ==
            (IF pawns \cap column(0) # {} /\ pawns \cap column(1) = {} THEN 1 ELSE 0)
            + (IF pawns \cap column(7) # {} /\ pawns \cap column(6) = {} THEN 1 ELSE 0)
            + SumOver([col \in 1..6 |->
                          IF /\ pawns \cap column(col) # {}
                             /\ pawns \cap column(col - 1) = {}
                             /\ pawns \cap column(col + 1) = {}
                          THEN 1 ELSE 0], 1, 6)
    IN isolated(passive_pawns) - isolated(active_pawns)

pawn_structure_score(state) ==
    DOUBLED_PAWN_COEF * doubled_pawn_number(state)
    + ISOLATED_PAWN_COEF * isolated_pawn_number(state)

board_material(active_pieces, passive_pieces, coef) ==
    coef * (count_ones(active_pieces) - count_ones(passive_pieces))

material_score(state) ==
    LET sb == split_boards(state)
        active_pieces == sb[1]
        passive_pieces == sb[2]
    IN board_material(active_pieces.pawn, passive_pieces.pawn, 100)
       + board_material(active_pieces.knight, passive_pieces.knight, 300)
       + board_material(active_pieces.bishop, passive_pieces.bishop, 300)
       + board_material(active_pieces.rook, passive_pieces.rook, 500)
       + board_material(active_pieces.queen, passive_pieces.queen, 900)

\* the loop of is_checkmate over the current ply: [mu, move_found]
RECURSIVE CheckmateLoop(_, _, _)
\* the loop of is_checkmate leaving at the first legal move before unmaking it
RECURSIVE CheckmateLoopBreakBeforeUnmake(_, _, _)
CheckmateLoopBreakBeforeUnmake(mu, ply, i) ==
    IF i > Len(ply) THEN [mu |-> mu, move_found |-> FALSE]
    ELSE With(make_move(mu, ply[i]), LAMBDA after :
            IF was_move_legal(after.state)
            THEN [mu |-> after, move_found |-> TRUE]
            ELSE CheckmateLoopBreakBeforeUnmake(unmake_move(after, ply[i]), ply, i + 1))

CheckmateLoop(mu, ply, i) ==
    IF i > Len(ply) THEN [mu |-> mu, move_found |-> FALSE]
    ELSE With(make_move(mu, ply[i]), LAMBDA after :
         With(unmake_move(after, ply[i]), LAMBDA before :
            IF was_move_legal(after.state)
            THEN [mu |-> before, move_found |-> TRUE]
            ELSE CheckmateLoop(before, ply, i + 1)))

\* is_checkmate that does not ask is_check first
is_checkmate_without_check(ctx) ==
    With(generate_pseudo_legal_moves(ctx.make_unmaker.state, new_ply(ctx.move_list)),
         LAMBDA ml :
    With(CheckmateLoop(ctx.make_unmaker, get_current_ply(ml), 1), LAMBDA r :
       [ret |-> ~r.move_found,
        ctx |-> [ctx EXCEPT !.make_unmaker = r.mu, !.move_list = drop_current_ply(ml)]]))

is_checkmate(ctx) ==
    IF ~is_check(ctx.make_unmaker.state) THEN [ret |-> FALSE, ctx |-> ctx]
    ELSE With(generate_pseudo_legal_moves(ctx.make_unmaker.state, new_ply(ctx.move_list)),
              LAMBDA ml :
         With(CheckmateLoop(ctx.make_unmaker, get_current_ply(ml), 1), LAMBDA r :
            [ret |-> ~r.move_found,
             ctx |-> [ctx EXCEPT !.make_unmaker = r.mu, !.move_list = drop_current_ply(ml)]]))

\* an active_side_move_number that leaves its ply on the list
active_side_move_number_without_drop(ctx) ==
    With(generate_pseudo_legal_moves(ctx.make_unmaker.state, new_ply(ctx.move_list)),
         LAMBDA ml :
            [ret |-> get_ply_size(ml, get_ply_number(ml)),
             ctx |-> [ctx EXCEPT !.move_list = ml]])

active_side_move_number(ctx) ==
    With(generate_pseudo_legal_moves(ctx.make_unmaker.state, new_ply(ctx.move_list)),
         LAMBDA ml :
            [ret |-> get_ply_size(ml, get_ply_number(ml)),
             ctx |-> [ctx EXCEPT !.move_list = drop_current_ply(ml)]])

toggle_active_color(ctx) ==
    [ctx EXCEPT !.make_unmaker.state.flags.active_color = Not(@)]

mobility_score(ctx) ==
    With(active_side_move_number(ctx), LAMBDA active :
    With(active_side_move_number(toggle_active_color(active.ctx)), LAMBDA passive :
       [ret |-> MOBILITY_COEF * (active.ret - passive.ret),
        ctx |-> toggle_active_color(passive.ctx)]))

\* an evaluate that scores a checkmate with the least 32-bit integer
evaluate_mate_as_least_integer(ctx) ==
    With(is_checkmate(ctx), LAMBDA c :
       IF c.ret THEN [ret |-> -2147483647 - 1, ctx |-> c.ctx]
       ELSE With(mobility_score(c.ctx), LAMBDA mobility :
               [ret |-> pawn_structure_score(c.ctx.make_unmaker.state)
                        + material_score(c.ctx.make_unmaker.state) + mobility.ret,
                ctx |-> mobility.ctx]))

evaluate(ctx) ==
    With(is_checkmate(ctx), LAMBDA c :
       IF c.ret THEN [ret |-> CHECKMATE_SCORE, ctx |-> c.ctx]
       ELSE With(mobility_score(c.ctx), LAMBDA mobility :
               [ret |-> pawn_structure_score(c.ctx.make_unmaker.state)
                        + material_score(c.ctx.make_unmaker.state) + mobility.ret,
                ctx |-> mobility.ctx]))

(***************************************************************************)
(* Search.  A call of alpha_beta_search, quiesce or recursive_perft is a    *)
(* frame [fn, pc, alpha, beta, depth, pv, line, ply_number, ply_size,       *)
(* best_score, best_move, static_score, i, m, nodes] plus the history       *)
(* fields entry, made, unmade and cuts (the beta cutoffs below the node).   *)
(* The pv parameter is a reference to the caller's line: the frame works on *)
(* its own copy, which the caller takes back when the call returns.         *)
(***************************************************************************)
MIN_SCORE == -2147483647

MAX_SCORE == 2147483647

QUIESCE_DEPTH == 4

SearchContextOf(mu, ml, table, depth_limit) ==
    [make_unmaker |-> mu, move_list |-> ml, transpos |-> table, max_depth |-> depth_limit]

\* Vec::pop as Option
PopLast(v) == IF v = <<>> THEN NoMove ELSE Some(v[Len(v)])

\* [ctx, prev_pv, ply_number, ply_size]
add_moves_to_list(ctx, pv_in) ==
    With(order_ply(generate_pseudo_legal_moves(ctx.make_unmaker.state,
                                               new_ply(ctx.move_list)),
                   PopLast(pv_in)),
         LAMBDA ml :
            [ctx |-> [ctx EXCEPT !.move_list = ml],
             prev_pv |-> IF pv_in = <<>> THEN pv_in ELSE SubSeq(pv_in, 1, Len(pv_in) - 1),
             ply_number |-> get_ply_number(ml),
             ply_size |-> get_ply_size(ml, get_ply_number(ml))])

\* a loop turn that goes on to the next move with the illegal move still made
continue_without_unmake(mu, m) == mu

\* if !was_move_legal(state) { unmake_move(m); continue; }
unmake_illegal_move(mu, m) == unmake_move(mu, m)

\* a node that keeps the score of the last move it tried
keep_last_score(f, score) ==
    [f EXCEPT !.best_score = score,
              !.best_move = f.m,
              !.alpha = IF score > f.alpha THEN score ELSE @,
              !.pv = IF score > f.alpha THEN Append(f.line, f.m) ELSE @]

\* if score > best_score { best_score = score; best_move = m;
\*     if score > alpha { alpha = score; pv.clear(); pv.append(line.clone()); pv.push(m) } }
keep_best_score(f, score) ==
    IF score > f.best_score
    THEN [f EXCEPT !.best_score = score,
                   !.best_move = f.m,
                   !.alpha = IF score > f.alpha THEN score ELSE @,
                   !.pv = IF score > f.alpha THEN Append(f.line, f.m) ELSE @]
    ELSE f

\* what a call finds when it starts and leaves when it returns
Footprint(mu, ml) ==
    [state |-> mu.state, zobrist_hash |-> mu.zobrist_hash,
     stack_depth |-> Len(mu.irreversible_stack),
     ply_number |-> ml.current_ply, total_count |-> ml.total_count]

Frame(fn, alpha, beta, depth, pv, nodes, mu, ml) ==
    [fn |-> fn, pc |-> "entry", alpha |-> alpha, beta |-> beta, depth |-> depth, pv |-> pv,
     line |-> <<>>, ply_number |-> 0, ply_size |-> 0, best_score |-> 0,
     best_move |-> ZeroMove, static_score |-> 0, i |-> 0, m |-> ZeroMove, nodes |-> nodes,
     entry |-> Footprint(mu, ml), made |-> 0, unmade |-> 0, cuts |-> 0]

Return(f, value, pv, mu, ml) ==
    [fn |-> f.fn, value |-> value, pv |-> pv, depth |-> f.depth,
     entry |-> f.entry, exit |-> Footprint(mu, ml), made |-> f.made, unmade |-> f.unmade,
     cuts |-> f.cuts]

(***************************************************************************)
(* Positions (GameState::from_fen of the FEN in the comment)                *)
(***************************************************************************)
NoRights ==
    [white_king_castle |-> FALSE, white_queen_castle |-> FALSE,
     black_king_castle |-> FALSE, black_queen_castle |-> FALSE]

Flags(active_color, rights) ==
    [active_color |-> active_color,
     white_king_castle |-> rights.white_king_castle,
     white_queen_castle |-> rights.white_queen_castle,
     black_king_castle |-> rights.black_king_castle,
     black_queen_castle |-> rights.black_queen_castle]

NoPieces ==
    [pawn |-> {}, knight |-> {}, bishop |-> {}, rook |-> {}, queen |-> {}, king |-> {}]

\* 4k2r/8/8/8/8/8/8/B3K2R w Kk - 3 1
CastlingPosition ==
    [boards |-> [white |-> [NoPieces EXCEPT !.bishop = {0}, !.rook = {7}, !.king = {4}],
                 black |-> [NoPieces EXCEPT !.rook = {63}, !.king = {60}]],
     en_passant |-> {},
     flags |-> Flags("White", [NoRights EXCEPT !.white_king_castle = TRUE,
                                               !.black_king_castle = TRUE]),
     halfmove |-> 3]

\* r3k2r/8/8/8/8/8/8/R3K2R w KQkq - 0 1
RooksPosition ==
    [boards |-> [white |-> [NoPieces EXCEPT !.rook = {0, 7}, !.king = {4}],
                 black |-> [NoPieces EXCEPT !.rook = {56, 63}, !.king = {60}]],
     en_passant |-> {},
     flags |-> Flags("White", [white_king_castle |-> TRUE, white_queen_castle |-> TRUE,
                               black_king_castle |-> TRUE, black_queen_castle |-> TRUE]),
     halfmove |-> 0]

\* r3k3/1P6/8/8/8/8/8/4K2R w Kq - 0 1
CornerPosition ==
    [boards |-> [white |-> [NoPieces EXCEPT !.pawn = {49}, !.rook = {7}, !.king = {4}],
                 black |-> [NoPieces EXCEPT !.rook = {56}, !.king = {60}]],
     en_passant |-> {},
     flags |-> Flags("White", [NoRights EXCEPT !.white_king_castle = TRUE,
                                               !.black_queen_castle = TRUE]),
     halfmove |-> 0]

\* 4k3/8/8/4p3/8/8/8/4K2R w K e6 0 1
EnPassantCastlePosition ==
    [boards |-> [white |-> [NoPieces EXCEPT !.rook = {7}, !.king = {4}],
                 black |-> [NoPieces EXCEPT !.pawn = {36}, !.king = {60}]],
     en_passant |-> {44},
     flags |-> Flags("White", [NoRights EXCEPT !.white_king_castle = TRUE]),
     halfmove |-> 0]

\* 2n1k3/1P6/8/8/3p4/8/4P3/4K3 w - - 0 1
PawnPosition ==
    [boards |-> [white |-> [NoPieces EXCEPT !.pawn = {12, 49}, !.king = {4}],
                 black |-> [NoPieces EXCEPT !.pawn = {27}, !.knight = {58}, !.king = {60}]],
     en_passant |-> {},
     flags |-> Flags("White", NoRights),
     halfmove |-> 0]

\* 4k3/8/8/8/2pP4/8/8/4RK2 b - d3 0 1
CheckPosition ==
    [boards |-> [white |-> [NoPieces EXCEPT !.pawn = {27}, !.rook = {4}, !.king = {5}],
                 black |-> [NoPieces EXCEPT !.pawn = {26}, !.king = {60}]],
     en_passant |-> {19},
     flags |-> Flags("Black", NoRights),
     halfmove |-> 0]

\* 8/8/8/3p4/4P3/8/8/K6k w - - 0 1
ExchangePosition ==
    [boards |-> [white |-> [NoPieces EXCEPT !.pawn = {28}, !.king = {0}],
                 black |-> [NoPieces EXCEPT !.pawn = {35}, !.king = {7}]],
     en_passant |-> {},
     flags |-> Flags("White", NoRights),
     halfmove |-> 0]

\* 7k/5P2/6K1/8/8/8/8/8 w - - 0 1
MatePosition ==
    [boards |-> [white |-> [NoPieces EXCEPT !.pawn = {53}, !.king = {46}],
                 black |-> [NoPieces EXCEPT !.king = {63}]],
     en_passant |-> {},
     flags |-> Flags("White", NoRights),
     halfmove |-> 0]

\* 8/8/8/8/8/1p6/qR6/5k1K w - - 0 1
CapturesPosition ==
    [boards |-> [white |-> [NoPieces EXCEPT !.rook = {9}, !.king = {7}],
                 black |-> [NoPieces EXCEPT !.pawn = {17}, !.queen = {8}, !.king = {5}]],
     en_passant |-> {},
     flags |-> Flags("White", NoRights),
     halfmove |-> 0]

\* 8/8/8/8/8/8/5KQ1/7k b - - 0 1: the side to move is checkmated
MatedPosition ==
    [boards |-> [white |-> [NoPieces EXCEPT !.queen = {14}, !.king = {13}],
                 black |-> [NoPieces EXCEPT !.king = {7}]],
     en_passant |-> {},
     flags |-> Flags("Black", NoRights),
     halfmove |-> 0]

\* 7k/5Q2/6K1/8/8/8/8/8 b - - 0 1
StalematePosition ==
    [boards |-> [white |-> [NoPieces EXCEPT !.queen = {53}, !.king = {46}],
                 black |-> [NoPieces EXCEPT !.king = {63}]],
     en_passant |-> {},
     flags |-> Flags("Black", NoRights),
     halfmove |-> 0]

\* k7/8/2p1p3/3p4/2PKP3/8/8/8 w - - 0 1: four pawn captures on d5 in a row
ChainPosition ==
    [boards |-> [white |-> [NoPieces EXCEPT !.pawn = {26, 28}, !.king = {27}],
                 black |-> [NoPieces EXCEPT !.pawn = {35, 42, 44}, !.king = {56}]],
     en_passant |-> {},
     flags |-> Flags("White", NoRights),
     halfmove |-> 0]

\* 7k/5K1p/6PP/8/8/8/8/8 w - - 0 1
LateMatePosition ==
    [boards |-> [white |-> [NoPieces EXCEPT !.pawn = {46, 47}, !.king = {53}],
                 black |-> [NoPieces EXCEPT !.pawn = {55}, !.king = {63}]],
     en_passant |-> {},
     flags |-> Flags("White", NoRights),
     halfmove |-> 0]

\* 4k3/8/8/8/8/8/3P4/2B1K3 w - - 0 1
QuietPosition ==
    [boards |-> [white |-> [NoPieces EXCEPT !.pawn = {11}, !.bishop = {2}, !.king = {4}],
                 black |-> [NoPieces EXCEPT !.king = {60}]],
     en_passant |-> {},
     flags |-> Flags("White", NoRights),
     halfmove |-> 0]

(***************************************************************************)
(* State                                                                    *)
(***************************************************************************)
VARIABLES
    make_unmaker,   \* MakeUnmaker: state, zobrist_hash, irreversible_stack, panic
    move_list,      \* MoveList
    transpos,       \* TranspositionTable
    max_depth,      \* SearchContext.max_depth
    prev_pv,        \* the prev_pv vector search() hands down
    call_stack,     \* the frames of alpha_beta_search / quiesce / recursive_perft
    returned,       \* what the last call that returned gave back
    made,           \* history: the un-reverted makes, oldest first
    makes,          \* history: the number of make_move calls
    unmakes,        \* history: the number of unmake_move calls
    snapshots,      \* history: the MoveList as it was at each new_ply still open
    stored,         \* history: the entries stored in the table, oldest first
    last_op         \* history: the last operation and what it saw

vars ==
    <<make_unmaker, move_list, transpos, max_depth, prev_pv, call_stack, returned,
      made, makes, unmakes, snapshots, stored, last_op>>

Range(seq) == {seq[i] : i \in 1..Len(seq)}

NoReturn == [fn |-> "none"]

Idle ==
    /\ move_list = MoveListNew
    /\ transpos = TranspositionTableNew
    /\ max_depth = 1
    /\ prev_pv = <<>>
    /\ call_stack = <<>>
    /\ returned = NoReturn
    /\ made = <<>>
    /\ makes = 0
    /\ unmakes = 0
    /\ snapshots = <<>>
    /\ stored = <<>>

(***************************************************************************)
(* SpecMU: make_move and unmake_move walked over the pseudo-legal moves,    *)
(* as recursize_test_make_unmake_move and the searches do: a move is made   *)
(* from a position the previous move left legal, and the move unmade is     *)
(* the most recent one not yet unmade.                                      *)
(***************************************************************************)
MaxMakes == 2

\* 4k3/8/8/8/8/8/8/4K3 w - - 255 1
LateClockPosition ==
    [boards |-> [white |-> [NoPieces EXCEPT !.king = {4}],
                 black |-> [NoPieces EXCEPT !.king = {60}]],
     en_passant |-> {},
     flags |-> Flags("White", NoRights),
     halfmove |-> 255]

PositionsMU ==
    {CastlingPosition, RooksPosition, CornerPosition, EnPassantCastlePosition, PawnPosition,
     CheckPosition, LateClockPosition}

TopFrame(mu) == mu.irreversible_stack[Len(mu.irreversible_stack)]

InitMU ==
    /\ make_unmaker \in {MakeUnmakerNew(p) : p \in PositionsMU}
    /\ last_op = [op |-> "new"]
    /\ Idle

MakeMove ==
    /\ make_unmaker.panic = NoPanic
    /\ makes < MaxMakes
    /\ made = <<>> \/ was_move_legal(make_unmaker.state)
    /\ \E m \in Range(get_pseudo_legal_moves(make_unmaker.state)) :
          LET after == make_move(make_unmaker, m)
          IN /\ make_unmaker' = after
             /\ made' = Append(made, [m |-> m, before |-> make_unmaker,
                                      pushed |-> TopFrame(after)])
             /\ last_op' = [op |-> "make_move", m |-> m, before |-> make_unmaker]
    /\ makes' = makes + 1
    /\ UNCHANGED <<move_list, transpos, max_depth, prev_pv, call_stack, returned,
                   unmakes, snapshots, stored>>

UnmakeMove ==
    /\ make_unmaker.panic = NoPanic
    /\ made # <<>>
    /\ LET e == made[Len(made)]
       IN /\ make_unmaker' = unmake_move(make_unmaker, e.m)
          /\ last_op' = [op |-> "unmake_move", m |-> e.m, before |-> make_unmaker,
                         made |-> e]
    /\ made' = SubSeq(made, 1, Len(made) - 1)
    /\ unmakes' = unmakes + 1
    /\ UNCHANGED <<move_list, transpos, max_depth, prev_pv, call_stack, returned,
                   makes, snapshots, stored>>

\* unmake_move called with no make_move left to revert
UnmakeMoveEmpty ==
    /\ make_unmaker.panic = NoPanic
    /\ make_unmaker.irreversible_stack = <<>>
    /\ \E m \in Range(get_pseudo_legal_moves(make_unmaker.state)) :
          /\ make_unmaker' = unmake_move(make_unmaker, m)
          /\ last_op' = [op |-> "unmake_move on empty stack", m |-> m,
                         before |-> make_unmaker]
    /\ unmakes' = unmakes + 1
    /\ UNCHANGED <<move_list, transpos, max_depth, prev_pv, call_stack, returned,
                   made, makes, snapshots, stored>>

NextMU == MakeMove \/ UnmakeMove \/ UnmakeMoveEmpty

SpecMU == InitMU /\ [][NextMU]_vars

(***************************************************************************)
(* SpecML: the MoveList operations in any order                             *)
(***************************************************************************)
MaxPly == 2

MaxMoves == 3

MovesML ==
    {MoveNew(6, 21, "QuietMove"), MoveNew(12, 28, "DoublePawnPush"), MoveNew(27, 36, "Capture")}

\* the moves of a ply, first to last, as get_ply_size and get_move give them
PlyMoves(ml, ply) == [i \in 1..get_ply_size(ml, ply) |-> get_move(ml, ply, i - 1)]

Snapshot(ml) ==
    [current_ply |-> ml.current_ply,
     total_count |-> ml.total_count,
     plies |-> [ply \in 1..ml.current_ply |-> PlyMoves(ml, ply)],
     added |-> 0,
     reordered |-> FALSE]

InitML ==
    /\ make_unmaker = MakeUnmakerNew(PawnPosition)
    /\ last_op = [op |-> "new"]
    /\ Idle

NewPly ==
    /\ move_list.panic = NoPanic
    /\ move_list.current_ply < MaxPly
    /\ move_list' = new_ply(move_list)
    /\ snapshots' = Append(snapshots, Snapshot(move_list))
    /\ last_op' = [op |-> "new_ply"]
    /\ UNCHANGED <<make_unmaker, transpos, max_depth, prev_pv, call_stack, returned,
                   made, makes, unmakes, stored>>

AddMoveToPly ==
    /\ move_list.panic = NoPanic
    /\ move_list.total_count < MaxMoves
    /\ \E m \in MovesML : move_list' = add_move_to_ply(move_list, m)
    /\ snapshots' = IF snapshots = <<>> THEN snapshots
                    ELSE [snapshots EXCEPT ![Len(snapshots)].added = @ + 1]
    /\ last_op' = [op |-> "add_move_to_ply"]
    /\ UNCHANGED <<make_unmaker, transpos, max_depth, prev_pv, call_stack, returned,
                   made, makes, unmakes, stored>>

OrderPly ==
    /\ move_list.panic = NoPanic
    /\ \E first \in {NoMove} \cup {Some(m) : m \in MovesML} :
          move_list' = order_ply(move_list, first)
    /\ snapshots' = IF snapshots = <<>> \/ move_list'.moves = move_list.moves THEN snapshots
                    ELSE [snapshots EXCEPT ![Len(snapshots)].reordered = TRUE]
    /\ last_op' = [op |-> "order_ply"]
    /\ UNCHANGED <<make_unmaker, transpos, max_depth, prev_pv, call_stack, returned,
                   made, makes, unmakes, stored>>

DropCurrentPly ==
    /\ move_list.panic = NoPanic
    /\ move_list' = drop_current_ply(move_list)
    /\ snapshots' = SubSeq(snapshots, 1, Len(snapshots) - 1)
    /\ last_op' = IF snapshots = <<>> THEN [op |-> "drop_current_ply without a ply"]
                  ELSE [op |-> "drop_current_ply", snapshot |-> snapshots[Len(snapshots)]]
    /\ UNCHANGED <<make_unmaker, transpos, max_depth, prev_pv, call_stack, returned,
                   made, makes, unmakes, stored>>

NextML == NewPly \/ AddMoveToPly \/ OrderPly \/ DropCurrentPly

SpecML == InitML /\ [][NextML]_vars

(***************************************************************************)
(* SpecTT: store and get on the transposition table, with hashes that       *)
(* share a slot                                                             *)
(***************************************************************************)
MaxStores == 3

HashesTT == {5, 5 + TABLE_SIZE, 6}

EntriesTT ==
    {TtEntry(h, depth, score, MoveNew(12, 28, "DoublePawnPush")) :
        h \in HashesTT, depth \in {1, 3}, score \in {-20, 35}}

InitTT ==
    /\ make_unmaker = MakeUnmakerNew(PawnPosition)
    /\ last_op = [op |-> "new"]
    /\ Idle

Store ==
    /\ Len(stored) < MaxStores
    /\ \E entry \in EntriesTT :
          /\ transpos' = store(transpos, entry)
          /\ stored' = Append(stored, entry)
          /\ last_op' = [op |-> "store", entry |-> entry,
                         previous |-> IF entry.hash % TABLE_SIZE \in DOMAIN transpos
                                      THEN <<transpos[entry.hash % TABLE_SIZE]>> ELSE <<>>]
    /\ UNCHANGED <<make_unmaker, move_list, max_depth, prev_pv, call_stack, returned,
                   made, makes, unmakes, snapshots>>

Get ==
    /\ \E h \in HashesTT :
          last_op' = [op |-> "get", hash |-> h, result |-> get(transpos, h)]
    /\ UNCHANGED <<make_unmaker, move_list, transpos, max_depth, prev_pv, call_stack,
                   returned, made, makes, unmakes, snapshots, stored>>

NextTT == Store \/ Get

SpecTT == InitTT /\ [][NextTT]_vars

(***************************************************************************)
(* SpecSearch: SearchContext::search and recursive_perft, one step per      *)
(* node entry, per move tried, per return of a child and per node exit.     *)
(* The frame on top of call_stack is the call that is running; a frame      *)
(* below it waits (pc = "wait") for the call above it to return.            *)
(***************************************************************************)
MaxDepth == 2

MaxPerftDepth == 2

PositionsSearch ==
    {ExchangePosition, MatePosition, CapturesPosition, LateMatePosition, QuietPosition,
     MatedPosition, StalematePosition, ChainPosition}

\* prev_pv as iterative_deepen hands it over: empty, or a line whose last
\* element is the root move of the previous iteration
PrevPvs ==
    {<<>>, <<MoveNew(28, 35, "Capture")>>, <<MoveNew(53, 61, "RookPromotion")>>,
     <<MoveNew(17, 8, "Capture"), MoveNew(9, 8, "Capture")>>}

Ctx == SearchContextOf(make_unmaker, move_list, transpos, max_depth)

Top == call_stack[Len(call_stack)]

Running(fn, pcs) == call_stack # <<>> /\ Top.fn = fn /\ Top.pc \in pcs

ReplaceTop(f) == [call_stack EXCEPT ![Len(call_stack)] = f]

PopFrame == SubSeq(call_stack, 1, Len(call_stack) - 1)

HistoryIdle == UNCHANGED <<made, makes, unmakes, snapshots, stored>>

InitSearch ==
    /\ make_unmaker \in {MakeUnmakerNew(p) : p \in PositionsSearch}
    /\ move_list = MoveListNew
    /\ transpos = TranspositionTableNew
    /\ returned = NoReturn
    /\ made = <<>>
    /\ makes = 0
    /\ unmakes = 0
    /\ snapshots = <<>>
    /\ stored = <<>>
    /\ \/ /\ max_depth \in 0..MaxDepth
          /\ prev_pv \in PrevPvs
          /\ call_stack = <<Frame("alpha_beta_search", MIN_SCORE, MAX_SCORE, 0, <<>>, 0,
                                  make_unmaker, move_list)>>
          /\ last_op = [op |-> "search"]
       \/ /\ max_depth = 1
          /\ prev_pv = <<>>
          /\ \E depth \in 0..MaxPerftDepth :
                call_stack = <<Frame("recursive_perft", 0, 0, depth, <<>>, 0,
                                     make_unmaker, move_list)>>
          /\ last_op = [op |-> "recursive_perft"]

\* the call on top returns value and leaves pv in the caller's vector
ReturnFrom(f, value, pv, mu, ml) ==
    /\ call_stack' = PopFrame
    /\ returned' = Return(f, value, pv, mu, ml)

\* alpha_beta_search up to its loop
AlphaBetaEnter ==
    /\ Running("alpha_beta_search", {"entry"})
    /\ IF Top.depth = max_depth
       THEN /\ call_stack' = ReplaceTop([Top EXCEPT !.fn = "quiesce"])
            /\ UNCHANGED <<move_list, prev_pv>>
       ELSE LET r == add_moves_to_list(Ctx, prev_pv)
            IN /\ move_list' = r.ctx.move_list
               /\ prev_pv' = r.prev_pv
               /\ call_stack' = ReplaceTop([Top EXCEPT !.pc = "loop",
                                                       !.ply_number = r.ply_number,
                                                       !.ply_size = r.ply_size,
                                                       !.best_score = MIN_SCORE,
                                                       !.best_move = ZeroMove,
                                                       !.line = <<>>,
                                                       !.i = 0])
    /\ last_op' = [op |-> "alpha_beta_search"]
    /\ UNCHANGED <<make_unmaker, transpos, max_depth, returned>>
    /\ HistoryIdle

\* one turn of a search loop up to the recursive call: the move is made and,
\* when it left the own king attacked, unmade again
TryMove(fn) ==
    LET f == Top
        m == get_move(move_list, f.ply_number, f.i)
    IN \E after \in {make_move(make_unmaker, m)} :
          IF ~was_move_legal(after.state)
          THEN /\ make_unmaker' = unmake_illegal_move(after, m)
               /\ call_stack' = ReplaceTop([f EXCEPT !.i = @ + 1, !.m = m,
                                                     !.made = @ + 1, !.unmade = @ + 1])
               /\ last_op' = [op |-> "illegal move"]
          ELSE /\ make_unmaker' = after
               /\ call_stack' =
                      Append(ReplaceTop([f EXCEPT !.pc = "wait", !.m = m, !.made = @ + 1]),
                             Frame(fn, -f.beta, -f.alpha, f.depth + 1, f.line, 0,
                                   after, move_list))
               /\ last_op' = [op |-> "make_move"]

AlphaBetaLoop ==
    /\ Running("alpha_beta_search", {"loop"})
    /\ Top.i < Top.ply_size
    /\ TryMove("alpha_beta_search")
    /\ UNCHANGED <<move_list, transpos, max_depth, prev_pv, returned>>
    /\ HistoryIdle

\* the rest of a loop turn, once the recursive call has returned
TakeScore ==
    \E g \in {keep_best_score([Top EXCEPT !.line = returned.pv, !.unmade = @ + 1,
                                          !.cuts = @ + returned.cuts],
                              -returned.value)} :
       /\ make_unmaker' = unmake_move(make_unmaker, g.m)
       /\ call_stack' = ReplaceTop(IF -returned.value >= g.beta
                                   THEN [g EXCEPT !.pc = "break", !.cuts = @ + 1]
                                   ELSE [g EXCEPT !.pc = "loop", !.i = @ + 1])
       /\ last_op' = [op |-> "unmake_move", score |-> -returned.value,
                       raised |-> -returned.value > Top.alpha]

AlphaBetaResume ==
    /\ Running("alpha_beta_search", {"wait"})
    /\ TakeScore
    /\ UNCHANGED <<move_list, transpos, max_depth, prev_pv, returned>>
    /\ HistoryIdle

\* alpha_beta_search after its loop
AlphaBetaExit ==
    /\ \/ Running("alpha_beta_search", {"break"})
       \/ Running("alpha_beta_search", {"loop"}) /\ Top.i >= Top.ply_size
    /\ \E dropped \in {[Ctx EXCEPT !.move_list = drop_current_ply(move_list)]} :
       \E e \in {IF Top.best_move = ZeroMove THEN evaluate(dropped)
                 ELSE [ret |-> Top.best_score, ctx |-> dropped]} :
       \E entry \in {TtEntry(AsU64(e.ctx.make_unmaker.zobrist_hash), Top.depth, e.ret,
                             Top.best_move)} :
          /\ make_unmaker' = e.ctx.make_unmaker
          /\ move_list' = e.ctx.move_list
          /\ transpos' = store(transpos, entry)
          /\ ReturnFrom(Top, e.ret, Top.pv, e.ctx.make_unmaker, e.ctx.move_list)
          /\ last_op' = [op |-> "store", entry |-> entry]
    /\ UNCHANGED <<max_depth, prev_pv>>
    /\ HistoryIdle

quiesce_depth_limit_plus_one == max_depth + QUIESCE_DEPTH + 1

\* the depth from which quiesce only evaluates
quiesce_depth_limit == max_depth + QUIESCE_DEPTH

\* quiesce up to its loop
QuiesceEnter ==
    /\ Running("quiesce", {"entry"})
    /\ LET f == Top
           at_limit == f.depth >= quiesce_depth_limit
       IN \E r \in {IF at_limit
                    THEN [ctx |-> Ctx, prev_pv |-> prev_pv, ply_number |-> 0, ply_size |-> 0]
                    ELSE add_moves_to_list(Ctx, prev_pv)} :
          \E e \in {evaluate(r.ctx)} :
             /\ make_unmaker' = e.ctx.make_unmaker
             /\ prev_pv' = r.prev_pv
             /\ IF at_limit
                THEN /\ move_list' = e.ctx.move_list
                     /\ ReturnFrom(f, e.ret, <<>>, e.ctx.make_unmaker, move_list')
                     /\ last_op' = [op |-> "depth limit"]
                ELSE IF e.ret >= f.beta
                THEN /\ move_list' = drop_current_ply(e.ctx.move_list)
                     /\ ReturnFrom(f, e.ret, <<>>, e.ctx.make_unmaker, move_list')
                     /\ last_op' = [op |-> "stand pat"]
                ELSE /\ move_list' = e.ctx.move_list
                     /\ call_stack' =
                            ReplaceTop([f EXCEPT !.pc = "loop",
                                                 !.ply_number = r.ply_number,
                                                 !.ply_size = r.ply_size,
                                                 !.static_score = e.ret,
                                                 !.best_score = e.ret,
                                                 !.best_move = ZeroMove,
                                                 !.alpha = IF e.ret > @ THEN e.ret ELSE @,
                                                 !.line = <<>>,
                                                 !.i = 0])
                     /\ last_op' = [op |-> "quiesce"]
                     /\ UNCHANGED returned
    /\ UNCHANGED <<transpos, max_depth>>
    /\ HistoryIdle

QuiesceLoop ==
    /\ Running("quiesce", {"loop"})
    /\ Top.i < Top.ply_size
    /\ IF is_quiet(get_move(move_list, Top.ply_number, Top.i))
       THEN /\ call_stack' = ReplaceTop([Top EXCEPT !.i = @ + 1])
            /\ last_op' = [op |-> "quiet move"]
            /\ UNCHANGED make_unmaker
       ELSE TryMove("quiesce")
    /\ UNCHANGED <<move_list, transpos, max_depth, prev_pv, returned>>
    /\ HistoryIdle

QuiesceResume ==
    /\ Running("quiesce", {"wait"})
    /\ TakeScore
    /\ UNCHANGED <<move_list, transpos, max_depth, prev_pv, returned>>
    /\ HistoryIdle

\* quiesce after its loop
QuiesceExit ==
    /\ \/ Running("quiesce", {"break"})
       \/ Running("quiesce", {"loop"}) /\ Top.i >= Top.ply_size
    /\ LET f == Top
           entry == TtEntry(AsU64(make_unmaker.zobrist_hash), 0, f.best_score, f.best_move)
       IN /\ move_list' = drop_current_ply(move_list)
          /\ IF f.best_move = ZeroMove
             THEN /\ ReturnFrom(f, f.static_score, <<>>, make_unmaker, move_list')
                  /\ last_op' = [op |-> "no capture"]
                  /\ UNCHANGED transpos
             ELSE /\ transpos' = store(transpos, entry)
                  /\ ReturnFrom(f, f.best_score, f.pv, make_unmaker, move_list')
                  /\ last_op' = [op |-> "store", entry |-> entry]
    /\ UNCHANGED <<make_unmaker, max_depth, prev_pv>>
    /\ HistoryIdle

\* recursive_perft up to its loop
PerftEnter ==
    /\ Running("recursive_perft", {"entry"})
    /\ LET f == Top
       IN IF f.depth = 0
          THEN /\ ReturnFrom(f, f.nodes + 1, <<>>, make_unmaker, move_list)
               /\ UNCHANGED move_list
          ELSE \E ml \in {generate_pseudo_legal_moves(make_unmaker.state,
                                                       new_ply(move_list))} :
                  /\ move_list' = ml
                  /\ call_stack' =
                         ReplaceTop([f EXCEPT !.pc = "loop",
                                              !.ply_number = get_ply_number(ml),
                                              !.ply_size = get_ply_size(ml, get_ply_number(ml)),
                                              !.i = 0])
                  /\ UNCHANGED returned
    /\ last_op' = [op |-> "recursive_perft"]
    /\ UNCHANGED <<make_unmaker, transpos, max_depth, prev_pv>>
    /\ HistoryIdle

\* one turn of the perft loop, up to the recursive call where there is one
PerftLoop ==
    /\ Running("recursive_perft", {"loop"})
    /\ Top.i < Top.ply_size
    /\ LET f == Top
           m == get_move(move_list, f.ply_number, f.i)
       IN \E after \in {make_move(make_unmaker, m)} :
          \E legal \in {was_move_legal(after.state)} :
             IF legal /\ f.depth # 1
             THEN /\ make_unmaker' = after
                  /\ call_stack' =
                         Append(ReplaceTop([f EXCEPT !.pc = "wait", !.m = m, !.made = @ + 1]),
                                Frame("recursive_perft", 0, 0, f.depth - 1, <<>>, f.nodes,
                                      after, move_list))
                  /\ last_op' = [op |-> "make_move"]
             ELSE /\ make_unmaker' = unmake_move(after, m)
                  /\ call_stack' =
                         ReplaceTop([f EXCEPT !.i = @ + 1, !.m = m,
                                              !.made = @ + 1, !.unmade = @ + 1,
                                              !.nodes = IF legal THEN @ + 1 ELSE @])
                  /\ last_op' = [op |-> IF legal THEN "leaf" ELSE "illegal move"]
    /\ UNCHANGED <<move_list, transpos, max_depth, prev_pv, returned>>
    /\ HistoryIdle

\* the rest of a perft loop turn, once the recursive call has returned
PerftResume ==
    /\ Running("recursive_perft", {"wait"})
    /\ make_unmaker' = unmake_move(make_unmaker, Top.m)
    /\ call_stack' = ReplaceTop([Top EXCEPT !.pc = "loop", !.i = @ + 1, !.unmade = @ + 1,
                                            !.nodes = returned.value])
    /\ last_op' = [op |-> "unmake_move"]
    /\ UNCHANGED <<move_list, transpos, max_depth, prev_pv, returned>>
    /\ HistoryIdle

\* recursive_perft after its loop
PerftExit ==
    /\ Running("recursive_perft", {"loop"})
    /\ Top.i >= Top.ply_size
    /\ move_list' = drop_current_ply(move_list)
    /\ ReturnFrom(Top, Top.nodes, <<>>, make_unmaker, move_list')
    /\ last_op' = [op |-> "drop_current_ply"]
    /\ UNCHANGED <<make_unmaker, transpos, max_depth, prev_pv>>
    /\ HistoryIdle

NextSearch ==
    \/ AlphaBetaEnter
    \/ AlphaBetaLoop
    \/ AlphaBetaResume
    \/ AlphaBetaExit
    \/ QuiesceEnter
    \/ QuiesceLoop
    \/ QuiesceResume
    \/ QuiesceExit
    \/ PerftEnter
    \/ PerftLoop
    \/ PerftResume
    \/ PerftExit

SpecSearch == InitSearch /\ [][NextSearch]_vars

(***************************************************************************)
(* Claims checked under SpecMU                                              *)
(***************************************************************************)
\* C1: at every point of a sequence of make_move and unmake_move calls the
\* incrementally maintained zobrist_hash equals GameState::hash computed from
\* scratch on the current state.
C1_HashIsHashOfState == make_unmaker.zobrist_hash = hash(make_unmaker.state)

\* an en passant capture made after a double pawn push has been unmade
C1_Witness ==
    /\ last_op.op = "unmake_move"
    /\ last_op.m.code = "EnPassant"
    /\ makes = 2
    /\ last_op.before.zobrist_hash # make_unmaker.zobrist_hash
    /\ make_unmaker.zobrist_hash = hash(make_unmaker.state)

\* C2: for every pseudo-legal move m, legal or not, make_move(m) followed by
\* unmake_move(m) restores the GameState: the twelve piece bitboards, the en passant
\* bitboard, the flags and the halfmove clock are what they were before the make.
C2_MakeUnmakeRestores ==
    last_op.op = "unmake_move" =>
        /\ make_unmaker.state.boards = last_op.made.before.state.boards
        /\ make_unmaker.state.en_passant = last_op.made.before.state.en_passant
        /\ make_unmaker.state.flags = last_op.made.before.state.flags
        /\ make_unmaker.state.halfmove = last_op.made.before.state.halfmove

\* a move that was_move_legal rejects has been made and unmade
C2_Witness ==
    /\ last_op.op = "unmake_move"
    /\ ~was_move_legal(last_op.before.state)
    /\ last_op.before.state # make_unmaker.state
    /\ make_unmaker.state = last_op.made.before.state

\* C4: the depth of the irreversible stack is the number of make_move calls minus
\* the number of unmake_move calls; a make pushes one frame on top of the frames
\* that were there, and the frame an unmake pops is the one its make pushed.
C4_StackDepth ==
    make_unmaker.panic = NoPanic =>
        /\ Len(make_unmaker.irreversible_stack) = makes - unmakes
        /\ last_op.op = "make_move" =>
              SubSeq(make_unmaker.irreversible_stack, 1,
                     Len(make_unmaker.irreversible_stack) - 1)
                  = last_op.before.irreversible_stack
        /\ last_op.op = "unmake_move" =>
              last_op.before.irreversible_stack
                  = Append(make_unmaker.irreversible_stack, last_op.made.pushed)

\* the second of two nested makes has been unmade: one frame is left
C4_Witness ==
    /\ last_op.op = "unmake_move"
    /\ makes = 2
    /\ unmakes = 1
    /\ Len(make_unmaker.irreversible_stack) = 1
    /\ Len(last_op.before.irreversible_stack) = 2

\* C5: unmake_move on an empty irreversible stack is a fatal error, and it fails
\* before a bitboard, a flag, the en passant board, the halfmove clock or the hash
\* has been modified.
C5_UnmakeOnEmptyStackIsFatal ==
    last_op.op = "unmake_move on empty stack" =>
        /\ make_unmaker.panic # NoPanic
        /\ make_unmaker.state = last_op.before.state
        /\ make_unmaker.zobrist_hash = last_op.before.zobrist_hash
        /\ make_unmaker.irreversible_stack = <<>>

\* unmake_move of a capture was called after a make and its unmake, on an empty stack
C5_Witness ==
    /\ last_op.op = "unmake_move on empty stack"
    /\ is_capture(last_op.m)
    /\ makes = 1
    /\ unmakes = 2
    /\ make_unmaker.panic # NoPanic

(***************************************************************************)
(* Claims checked under SpecML                                              *)
(***************************************************************************)
\* C7: the operations on the current ply never change the moves or the size of a
\* lower ply, and after new_ply, adds and order_ply, drop_current_ply makes the
\* previous ply the current one again with the same moves in the same order and
\* the same total count as before the new_ply.
C7_LowerPliesUntouched ==
    move_list.panic = NoPanic =>
        /\ \A k \in 1..Len(snapshots) :
              /\ snapshots[k].current_ply < move_list.current_ply
              /\ \A ply \in 1..snapshots[k].current_ply :
                    PlyMoves(move_list, ply) = snapshots[k].plies[ply]
        /\ last_op.op = "drop_current_ply" =>
              /\ move_list.current_ply = last_op.snapshot.current_ply
              /\ move_list.total_count = last_op.snapshot.total_count
              /\ \A ply \in 1..move_list.current_ply :
                    PlyMoves(move_list, ply) = last_op.snapshot.plies[ply]

\* a ply with one move lay under a ply that got two moves, was reordered and dropped
C7_Witness ==
    /\ last_op.op = "drop_current_ply"
    /\ last_op.snapshot.added = 2
    /\ last_op.snapshot.reordered
    /\ last_op.snapshot.total_count = 1
    /\ move_list.current_ply = 1
    /\ move_list.total_count = 1
    /\ Len(move_list.moves) = 3
    /\ move_list.panic = NoPanic

(***************************************************************************)
(* Claims checked under SpecTT                                              *)
(***************************************************************************)
\* the last entry stored at the slot of hash h, as Option
LastStoredAt(h) ==
    LET at == {k \in 1..Len(stored) : stored[k].hash % TABLE_SIZE = h % TABLE_SIZE}
    IN IF at = {} THEN <<>> ELSE <<stored[get_last_square(at)]>>

\* C8: get(h) returns the entry stored with hash h as long as no other store hit
\* the slot h mod 2^20; once an entry with another hash h2 of the same slot has been
\* stored, get(h) is a miss and get(h2) returns the new entry.
C8_GetAfterStore ==
    last_op.op = "get" =>
        LET last == LastStoredAt(last_op.hash)
        IN /\ (last # <<>> /\ last[1].hash = last_op.hash) => last_op.result = last
           /\ (last # <<>> /\ last[1].hash # last_op.hash) => last_op.result = <<>>

\* h was stored, then h2 of the same slot: get(h) has just missed
C8_Witness ==
    /\ last_op.op = "get"
    /\ last_op.result = <<>>
    /\ \E j, k \in 1..Len(stored) :
          /\ j < k
          /\ stored[j].hash = last_op.hash
          /\ stored[k].hash # last_op.hash
          /\ stored[k].hash % TABLE_SIZE = last_op.hash % TABLE_SIZE
          /\ get(transpos, stored[k].hash) = <<stored[k]>>

\* C9: get(h) never returns an entry whose stored hash differs from h, and store
\* always replaces the content of the slot, whatever the depths of the old and the
\* new entry.
C9_FullHashAndAlwaysReplace ==
    /\ last_op.op = "get" =>
          (last_op.result # <<>> => last_op.result[1].hash = last_op.hash)
    /\ last_op.op = "store" =>
          /\ transpos[last_op.entry.hash % TABLE_SIZE] = last_op.entry
          /\ get(transpos, last_op.entry.hash) = <<last_op.entry>>

\* an entry of depth 1 has replaced an entry of depth 3 of another position
C9_Witness ==
    /\ last_op.op = "store"
    /\ last_op.previous # <<>>
    /\ last_op.previous[1].depth = 3
    /\ last_op.entry.depth = 1
    /\ last_op.previous[1].hash # last_op.entry.hash
    /\ transpos[last_op.entry.hash % TABLE_SIZE] = last_op.entry

(***************************************************************************)
(* Claims checked under SpecSearch                                          *)
(***************************************************************************)
SearchFns == {"alpha_beta_search", "quiesce"}

\* C3: in alpha_beta_search and quiesce every make_move is followed by exactly
\* one unmake_move at the same node before the next move of the node is tried:
\* a node at the head or past the end of its loop has unmade as often as it
\* has made and finds the GameState and the zobrist_hash it was entered with,
\* a node waiting for a recursive call has made once more than it has unmade,
\* and every call, search() itself included, returns with the state and the
\* hash it was entered with.
C3_MakeUnmakePaired ==
    /\ \A k \in 1..Len(call_stack) :
          call_stack[k].fn \in SearchFns =>
             /\ call_stack[k].pc \in {"entry", "loop", "break"} =>
                   /\ call_stack[k].made = call_stack[k].unmade
                   /\ k = Len(call_stack)
                   /\ make_unmaker.state = call_stack[k].entry.state
                   /\ make_unmaker.zobrist_hash = call_stack[k].entry.zobrist_hash
             /\ call_stack[k].pc = "wait" =>
                   call_stack[k].made = call_stack[k].unmade + 1
    /\ returned.fn \in SearchFns =>
          /\ returned.made = returned.unmade
          /\ returned.exit.state = returned.entry.state
          /\ returned.exit.zobrist_hash = returned.entry.zobrist_hash
          /\ call_stack = <<>> =>
                /\ make_unmaker.state = returned.entry.state
                /\ make_unmaker.zobrist_hash = returned.entry.zobrist_hash
                /\ make_unmaker.irreversible_stack = <<>>

\* search() at depth 2 has returned, its root having made legal and illegal moves
C3_Witness ==
    /\ call_stack = <<>>
    /\ returned.fn = "alpha_beta_search"
    /\ max_depth = 2
    /\ returned.made >= 5
    /\ returned.made = returned.unmade
    /\ make_unmaker.state = MatePosition
    /\ last_op.op = "store"

\* C6: the ply segments of the MoveList nest as the calls do.  A call of
\* alpha_beta_search, quiesce or recursive_perft that is past its entry holds
\* exactly the segment above the one its caller holds, starting at the total
\* count it was entered with; every call returns with the ply number and the
\* total count it was entered with; and is_checkmate and
\* active_side_move_number leave both as they find them.
C6_PlySegmentsNest ==
    /\ \A k \in 1..Len(call_stack) :
          /\ call_stack[k].entry.ply_number = k - 1
          /\ call_stack[k].pc # "entry" =>
                /\ call_stack[k].ply_number = k
                /\ move_list.ply_first_move[k] = call_stack[k].entry.total_count
    /\ move_list.current_ply =
          Cardinality({k \in 1..Len(call_stack) : call_stack[k].pc # "entry"})
    /\ returned.fn # "none" =>
          /\ returned.exit.ply_number = returned.entry.ply_number
          /\ returned.exit.total_count = returned.entry.total_count
    /\ call_stack = <<>> => move_list.current_ply = 0 /\ move_list.total_count = 0
    /\ is_checkmate(Ctx).ctx.move_list.current_ply = move_list.current_ply
    /\ is_checkmate(Ctx).ctx.move_list.total_count = move_list.total_count
    /\ active_side_move_number(Ctx).ctx.move_list.current_ply = move_list.current_ply
    /\ active_side_move_number(Ctx).ctx.move_list.total_count = move_list.total_count
    /\ move_list.panic = NoPanic

\* a quiesce call three plies below the root, on a position in check that is
\* not mate (is_checkmate has opened and dropped a segment of its own), has
\* generated its moves, stood pat, dropped them on that return path and
\* returned below three segments that are still open
C6_Witness ==
    /\ Len(call_stack) = 3
    /\ returned.fn = "quiesce"
    /\ returned.entry.ply_number = 3
    /\ returned.entry.total_count > 0
    /\ is_check(returned.exit.state)
    /\ ~is_checkmate(Ctx).ret
    /\ returned.exit.ply_number = 3
    /\ returned.exit.total_count = returned.entry.total_count
    /\ move_list.current_ply = 3
    /\ last_op.op = "stand pat"

\* the value evaluate gives a position
StaticScore(state) ==
    evaluate(SearchContextOf(MakeUnmakerNew(state), MoveListNew, TranspositionTableNew, 0)).ret

\* the positions the legal moves lead to (the legal captures and promotions only,
\* when loud_only)
Successors(state, loud_only) ==
    {make_move(MakeUnmakerNew(state), m).state :
        m \in {x \in Range(get_pseudo_legal_moves(state)) :
                 /\ loud_only => ~is_quiet(x)
                 /\ was_move_legal(make_move(MakeUnmakerNew(state), x).state)}}

Maximum(scores) == CHOOSE x \in scores : \A y \in scores : x >= y

\* quiescence without a window: the better of standing pat and the best capture
RECURSIVE QuiescenceValue(_, _, _)
QuiescenceValue(state, depth, limit) ==
    IF depth >= limit + QUIESCE_DEPTH THEN StaticScore(state)
    ELSE Maximum({StaticScore(state)}
                 \cup {-QuiescenceValue(next, depth + 1, limit) :
                          next \in Successors(state, TRUE)})

\* full-width negamax: no window, no ordering, no cutoff
RECURSIVE NegamaxValue(_, _, _)
NegamaxValue(state, depth, limit) ==
    IF depth = limit THEN QuiescenceValue(state, depth, limit)
    ELSE IF Successors(state, FALSE) = {} THEN StaticScore(state)
    ELSE Maximum({-NegamaxValue(next, depth + 1, limit) :
                     next \in Successors(state, FALSE)})

\* C10: the score search() returns for the window (MIN_SCORE, MAX_SCORE) is the
\* full-width negamax value of the root for the same depth, quiescence and
\* evaluation: ordering and beta cutoffs do not change it.
C10_RootScoreIsNegamax ==
    (call_stack = <<>> /\ returned.fn \in SearchFns) =>
        returned.value = NegamaxValue(returned.entry.state, 0, max_depth)

\* a search of depth 2 that was ordered by a previous line and cut off at least
\* twice has returned the negamax value
C10_Witness ==
    /\ call_stack = <<>>
    /\ returned.fn = "alpha_beta_search"
    /\ max_depth = 2
    /\ returned.cuts >= 2
    /\ returned.entry.state = ExchangePosition
    /\ returned.pv # <<>>
    /\ returned.value = NegamaxValue(ExchangePosition, 0, 2)

(***************************************************************************)
(* The principal variation                                                 *)
(***************************************************************************)
Reverse(s) == [i \in 1..Len(s) |-> s[Len(s) + 1 - i]]

\* m is a pseudo-legal move of state that passes was_move_legal once made
IsLegalMove(state, m) ==
    /\ m \in Range(get_pseudo_legal_moves(state))
    /\ was_move_legal(make_move(MakeUnmakerNew(state), m).state)

\* the moves of ms can be played one after the other from state
RECURSIVE Playable(_, _)
Playable(state, ms) ==
    \/ ms = <<>>
    \/ /\ IsLegalMove(state, Head(ms))
       /\ Playable(make_move(MakeUnmakerNew(state), Head(ms)).state, Tail(ms))

\* the value of the node at depth: quiescence from max_depth on, negamax above
SearchValue(state, depth, limit) ==
    IF depth >= limit THEN QuiescenceValue(state, depth, limit)
    ELSE NegamaxValue(state, depth, limit)

\* C11: the principal variation search() returns, read from its last element
\* to its first, is a line of legal moves from the root, its last element is a
\* root move whose negated child score is the returned score, and a node whose
\* alpha was raised by a child holds the child's line followed by the move.
C11_PvIsPlayableLine ==
    /\ (call_stack = <<>> /\ returned.fn \in SearchFns) =>
          /\ Playable(returned.entry.state, Reverse(returned.pv))
          /\ returned.pv # <<>> =>
                LET m == returned.pv[Len(returned.pv)]
                IN /\ IsLegalMove(returned.entry.state, m)
                   /\ returned.value =
                         -SearchValue(make_move(MakeUnmakerNew(returned.entry.state), m).state,
                                      1, max_depth)
    /\ (call_stack # <<>> /\ Top.fn \in SearchFns /\ last_op.op = "unmake_move"
           /\ last_op.raised) =>
          Top.pv = Append(returned.pv, Top.m)

(***************************************************************************)
(* Quiescence without captures                                             *)
(***************************************************************************)
NoCaptureOrPromotion(state) ==
    \A m \in Range(get_pseudo_legal_moves(state)) : ~is_capture(m) /\ ~is_promotion(m)

\* the call that has returned to the caller of search() was
\* quiesce(MIN_SCORE, MAX_SCORE, 0, ..)
RootQuiesceReturned ==
    call_stack = <<>> /\ returned.fn = "quiesce" /\ returned.depth = 0

\* C12: when the side to move has no capture and no promotion among its
\* pseudo-legal moves, quiesce called with the full window returns the static
\* evaluation and an empty principal variation.
C12_QuiesceWithoutCaptures ==
    (RootQuiesceReturned /\ NoCaptureOrPromotion(returned.entry.state)) =>
        /\ returned.value = StaticScore(returned.entry.state)
        /\ returned.pv = <<>>

\* quiesce has gone through the nine quiet moves of the position, a double pawn
\* push among them, and returned
C12_Witness ==
    /\ RootQuiesceReturned
    /\ returned.entry.state = QuietPosition
    /\ NoCaptureOrPromotion(QuietPosition)
    /\ MoveNew(11, 27, "DoublePawnPush") \in Range(get_pseudo_legal_moves(QuietPosition))
    /\ last_op.op = "no capture"
    /\ returned.made = 0
    /\ returned.pv = <<>>

(***************************************************************************)
(* SpecDeepen: iterative_deepen on top of the search.  The frame of         *)
(* iterative_deepen is the bottom of call_stack and the frames of the       *)
(* search it runs sit above it.  What Local::now() - start_time gives is   *)
(* up to the clock: any number of ticks from 0 to MaxElapsed.              *)
(***************************************************************************)
MaxDeepenings == 3

MaxElapsed == 3

MaxBudget == 3

U8_MAX == 255

\* the positions and the max_depth SearchContext::new is given with them
ContextsDeepen ==
    ({ExchangePosition, MatePosition} \X {0, 1}) \cup ({MatedPosition} \X {1, U8_MAX})

\* the locals of iterative_deepen; searches and elapsed_total are history
DeepenFrame(max_time, depth_limit) ==
    [fn |-> "iterative_deepen", pc |-> "loop", max_time |-> max_time, time_taken |-> 0,
     prev_depth |-> depth_limit, score |-> 0, pv |-> <<>>,
     started |-> 0, searches |-> <<>>, elapsed_total |-> 0, started_after |-> 0]

InitDeepen ==
    /\ \E c \in ContextsDeepen :
          /\ make_unmaker = MakeUnmakerNew(c[1])
          /\ max_depth = c[2]
    /\ move_list = MoveListNew
    /\ transpos = TranspositionTableNew
    /\ prev_pv = <<>>
    /\ \E max_time \in {0, MaxBudget} :
          call_stack = <<DeepenFrame(max_time, max_depth)>>
    /\ returned = NoReturn
    /\ made = <<>>
    /\ makes = 0
    /\ unmakes = 0
    /\ snapshots = <<>>
    /\ stored = <<>>
    /\ last_op = [op |-> "iterative_deepen"]

Deepening(pcs) ==
    Len(call_stack) = 1 /\ Top.fn = "iterative_deepen" /\ Top.pc \in pcs

\* while time_taken < max_time { let prev_pv = pv.clone(); self.search(prev_pv) ..
DeepenSearch ==
    /\ Deepening({"loop"})
    /\ Top.time_taken < Top.max_time
    /\ Top.started < MaxDeepenings
    /\ prev_pv' = Top.pv
    /\ call_stack' =
           <<[Top EXCEPT !.pc = "wait", !.started = @ + 1,
                         !.started_after = Top.elapsed_total],
             Frame("alpha_beta_search", MIN_SCORE, MAX_SCORE, 0, <<>>, 0,
                   make_unmaker, move_list)>>
    /\ last_op' = [op |-> "search"]
    /\ UNCHANGED <<make_unmaker, move_list, transpos, max_depth, returned>>
    /\ HistoryIdle

\* self.max_depth += 1 on a u8: past 255 a build with overflow checks panics
\* and a build without them wraps to 0
increment_max_depth(depth_limit) ==
    IF depth_limit < U8_MAX THEN {[panic |-> NoPanic, max_depth |-> depth_limit + 1]}
    ELSE {[panic |-> "attempt to add with overflow", max_depth |-> depth_limit],
          [panic |-> NoPanic, max_depth |-> 0]}

\* .. (score, *pv) = the result; time_taken = Local::now() - start_time;
\*    self.max_depth += 1 }
DeepenResume ==
    /\ Deepening({"wait"})
    /\ \E elapsed \in 0..MaxElapsed :
       \E next \in increment_max_depth(max_depth) :
       \E f \in {[Top EXCEPT !.pc = "loop",
                             !.score = returned.value,
                             !.pv = returned.pv,
                             !.time_taken = elapsed,
                             !.elapsed_total = @ + elapsed,
                             !.searches = Append(@, [depth |-> max_depth,
                                                     score |-> returned.value,
                                                     pv |-> returned.pv])]} :
          /\ max_depth' = next.max_depth
          /\ IF next.panic = NoPanic
             THEN /\ call_stack' = <<f>>
                  /\ UNCHANGED returned
             ELSE /\ call_stack' = <<>>
                  /\ returned' = [fn |-> "iterative_deepen", panic |-> next.panic,
                                  frame |-> f]
          /\ last_op' = [op |-> "elapsed", elapsed |-> elapsed]
    /\ UNCHANGED <<make_unmaker, move_list, transpos, prev_pv>>
    /\ HistoryIdle

\* self.max_depth = prev_depth; (score, pv.clone())
DeepenReturn ==
    /\ Deepening({"loop"})
    /\ ~(Top.time_taken < Top.max_time)
    /\ max_depth' = Top.prev_depth
    /\ call_stack' = <<>>
    /\ returned' = [fn |-> "iterative_deepen", panic |-> NoPanic, value |-> Top.score,
                    pv |-> Top.pv, frame |-> Top]
    /\ last_op' = [op |-> "return"]
    /\ UNCHANGED <<make_unmaker, move_list, transpos, prev_pv>>
    /\ HistoryIdle

NextDeepen ==
    \/ DeepenSearch
    \/ DeepenResume
    \/ DeepenReturn
    \/ AlphaBetaEnter
    \/ AlphaBetaLoop
    \/ AlphaBetaResume
    \/ AlphaBetaExit
    \/ QuiesceEnter
    \/ QuiesceLoop
    \/ QuiesceResume
    \/ QuiesceExit

SpecDeepen == InitDeepen /\ [][NextDeepen]_vars

(***************************************************************************)
(* Claims checked under SpecDeepen                                         *)
(***************************************************************************)
\* C13: no search of a further depth is started once the elapsed times of
\* the depths completed so far add up to more than max_time.
C13_StopsOnCumulativeTime ==
    \A k \in 1..Len(call_stack) :
        (call_stack[k].fn = "iterative_deepen" /\ call_stack[k].pc = "wait") =>
            call_stack[k].started_after <= call_stack[k].max_time

\* the deepest frame position of a completed search among searches
Deepest(searches) ==
    \A i \in 1..Len(searches) : searches[Len(searches)].depth >= searches[i].depth

\* C14: iterative_deepen called with a positive budget completes at least
\* one search, completes every search it starts, and returns the score and
\* the principal variation of the last search, which is the deepest one.
C14_ReturnsLastCompletedSearch ==
    /\ \A k \in 1..Len(call_stack) :
          call_stack[k].fn = "iterative_deepen" =>
             call_stack[k].started =
                Len(call_stack[k].searches) + (IF call_stack[k].pc = "wait" THEN 1 ELSE 0)
    /\ (call_stack = <<>> /\ returned.fn = "iterative_deepen") =>
          /\ returned.panic = NoPanic
          /\ returned.frame.started = Len(returned.frame.searches)
          /\ returned.frame.max_time > 0 => returned.frame.searches # <<>>
          /\ returned.frame.searches # <<>> =>
                LET last == returned.frame.searches[Len(returned.frame.searches)]
                IN /\ returned.value = last.score
                   /\ returned.pv = last.pv
                   /\ Deepest(returned.frame.searches)

(***************************************************************************)
(* SpecPerft: recursive_perft run on the cases of recursive_perft_test.     *)
(***************************************************************************)
AllRights ==
    [white_king_castle |-> TRUE, white_queen_castle |-> TRUE,
     black_king_castle |-> TRUE, black_queen_castle |-> TRUE]

\* rnbqkbnr/pppppppp/8/8/8/8/PPPPPPPP/RNBQKBNR w KQkq - 0 1
initial_fen ==
    [boards |-> [white |-> [pawn |-> 8..15, knight |-> {1, 6}, bishop |-> {2, 5},
                            rook |-> {0, 7}, queen |-> {3}, king |-> {4}],
                 black |-> [pawn |-> 48..55, knight |-> {57, 62}, bishop |-> {58, 61},
                            rook |-> {56, 63}, queen |-> {59}, king |-> {60}]],
     en_passant |-> {},
     flags |-> Flags("White", AllRights),
     halfmove |-> 0]

\* r3k2r/p1ppqpb1/bn2pnp1/3PN3/1p2P3/2N2Q1p/PPPBBPPP/R3K2R w KQkq - 0 1
position_2 ==
    [boards |-> [white |-> [pawn |-> {8, 9, 10, 13, 14, 15, 28, 35}, knight |-> {18, 36},
                            bishop |-> {11, 12}, rook |-> {0, 7}, queen |-> {21},
                            king |-> {4}],
                 black |-> [pawn |-> {23, 25, 44, 46, 48, 50, 51, 53}, knight |-> {41, 45},
                            bishop |-> {40, 54}, rook |-> {56, 63}, queen |-> {52},
                            king |-> {60}]],
     en_passant |-> {},
     flags |-> Flags("White", AllRights),
     halfmove |-> 0]

\* 8/2p5/3p4/KP5r/1R3p1k/8/4P1P1/8 w - - 0 1
position_3 ==
    [boards |-> [white |-> [NoPieces EXCEPT !.pawn = {12, 14, 33}, !.rook = {25},
                                            !.king = {32}],
                 black |-> [NoPieces EXCEPT !.pawn = {29, 43, 50}, !.rook = {39},
                                            !.king = {31}]],
     en_passant |-> {},
     flags |-> Flags("White", NoRights),
     halfmove |-> 0]

Case(fen, depth, nodes) == [fen |-> fen, depth |-> depth, nodes |-> nodes]

\* the table of recursive_perft_test
cases ==
    {Case(initial_fen, 1, 20), Case(initial_fen, 2, 400), Case(initial_fen, 3, 8902),
     Case(initial_fen, 4, 197281),
     Case(position_2, 1, 48), Case(position_2, 2, 2039), Case(position_2, 3, 97862),
     Case(position_3, 1, 14), Case(position_3, 2, 191), Case(position_3, 3, 2812),
     Case(position_3, 4, 43238)}

\* the cases run to the end are those of at most this many nodes
MaxCaseNodes == 100000

InitPerft ==
    /\ \E c \in {k \in cases : k.nodes <= MaxCaseNodes} :
          /\ make_unmaker = MakeUnmakerNew(c.fen)
          /\ call_stack = <<Frame("recursive_perft", 0, 0, c.depth, <<>>, 0,
                                  MakeUnmakerNew(c.fen), MoveListNew)>>
    /\ move_list = MoveListNew
    /\ transpos = TranspositionTableNew
    /\ max_depth = 1
    /\ prev_pv = <<>>
    /\ returned = NoReturn
    /\ made = <<>>
    /\ makes = 0
    /\ unmakes = 0
    /\ snapshots = <<>>
    /\ stored = <<>>
    /\ last_op = [op |-> "recursive_perft"]

NextPerft == PerftEnter \/ PerftLoop \/ PerftResume \/ PerftExit

SpecPerft == InitPerft /\ [][NextPerft]_vars

(***************************************************************************)
(* Claims checked under SpecPerft                                           *)
(***************************************************************************)
RootPerftReturned == call_stack = <<>> /\ returned.fn = "recursive_perft"

MaxPlayed == 1

\* 8/8/8/8/8/5k2/4p3/4K3 w - - 0 1
PawnStalematePosition ==
    [boards |-> [white |-> [NoPieces EXCEPT !.king = {4}],
                 black |-> [NoPieces EXCEPT !.pawn = {12}, !.king = {21}]],
     en_passant |-> {},
     flags |-> Flags("White", NoRights),
     halfmove |-> 0]

\* 8/8/8/K2pP2r/8/8/8/7k w - d6 0 1
EnPassantRookPosition ==
    [boards |-> [white |-> [NoPieces EXCEPT !.pawn = {36}, !.king = {32}],
                 black |-> [NoPieces EXCEPT !.pawn = {35}, !.rook = {39}, !.king = {7}]],
     en_passant |-> {43},
     flags |-> Flags("White", NoRights),
     halfmove |-> 0]

\* 7K/8/8/8/Q2Pp2k/8/8/8 b - d3 0 1
EnPassantQueenPosition ==
    [boards |-> [white |-> [NoPieces EXCEPT !.pawn = {27}, !.queen = {24}, !.king = {63}],
                 black |-> [NoPieces EXCEPT !.pawn = {28}, !.king = {31}]],
     en_passant |-> {19},
     flags |-> Flags("Black", NoRights),
     halfmove |-> 0]

PositionsQuery ==
    {position_3, CastlingPosition, PawnPosition, CheckPosition,
     CapturesPosition, LateMatePosition, MatedPosition, StalematePosition,
     PawnStalematePosition, EnPassantRookPosition, EnPassantQueenPosition}

InitQuery ==
    /\ make_unmaker \in {MakeUnmakerNew(p) : p \in PositionsQuery}
    /\ last_op = [op |-> "new"]
    /\ Idle

QueryIdle ==
    UNCHANGED <<transpos, max_depth, prev_pv, call_stack, returned, made, makes, unmakes,
                snapshots, stored>>

\* make_move of a pseudo-legal move, as the searches do before they ask
\* was_move_legal
PlayMove ==
    /\ makes < MaxPlayed
    /\ makes = 0 \/ was_move_legal(make_unmaker.state)
    /\ \E m \in Range(get_pseudo_legal_moves(make_unmaker.state)) :
          /\ make_unmaker' = make_move(make_unmaker, m)
          /\ last_op' = [op |-> "make_move", m |-> m, before |-> make_unmaker.state]
    /\ makes' = makes + 1
    /\ UNCHANGED <<move_list, transpos, max_depth, prev_pv, call_stack, returned, made,
                   unmakes, snapshots, stored>>

\* the queries that read the state only: a query asked after one of them
\* answers as it does before it
ReadOnlyQueries == {"is_square_attacked", "was_move_legal", "is_check"}

\* asked of the position as MakeUnmaker::new or make_move has left it
IsSquareAttacked ==
    /\ last_op.op \in {"new", "make_move"}
    /\ \E square \in Squares, by_color \in Colors :
          last_op' = [op |-> "is_square_attacked", square |-> square, by_color |-> by_color,
                      ret |-> is_square_attacked(make_unmaker.state, square, by_color)]
    /\ UNCHANGED <<make_unmaker, move_list>>
    /\ QueryIdle

WasMoveLegal ==
    /\ last_op.op \notin ReadOnlyQueries
    /\ last_op' = [op |-> "was_move_legal", ret |-> was_move_legal(make_unmaker.state),
                   asked_after |-> last_op]
    /\ UNCHANGED <<make_unmaker, move_list>>
    /\ QueryIdle

IsCheck ==
    /\ last_op.op \notin ReadOnlyQueries
    /\ last_op' = [op |-> "is_check", ret |-> is_check(make_unmaker.state)]
    /\ UNCHANGED <<make_unmaker, move_list>>
    /\ QueryIdle

IsCheckmate ==
    /\ last_op.op \notin ReadOnlyQueries
    /\ \E r \in {is_checkmate(Ctx)} :
          /\ make_unmaker' = r.ctx.make_unmaker
          /\ move_list' = r.ctx.move_list
          /\ last_op' = [op |-> "is_checkmate", ret |-> r.ret,
                          before |-> Footprint(make_unmaker, move_list)]
    /\ QueryIdle

Evaluate ==
    /\ last_op.op \notin ReadOnlyQueries
    /\ \E r \in {evaluate(Ctx)} :
          /\ make_unmaker' = r.ctx.make_unmaker
          /\ move_list' = r.ctx.move_list
          /\ last_op' = [op |-> "evaluate", ret |-> r.ret,
                          before |-> Footprint(make_unmaker, move_list)]
    /\ QueryIdle

MobilityScore ==
    /\ last_op.op \notin ReadOnlyQueries
    /\ \E r \in {mobility_score(Ctx)} :
          /\ make_unmaker' = r.ctx.make_unmaker
          /\ move_list' = r.ctx.move_list
          /\ last_op' = [op |-> "mobility_score", ret |-> r.ret,
                          before |-> Footprint(make_unmaker, move_list)]
    /\ QueryIdle

NextQuery ==
    \/ PlayMove
    \/ IsSquareAttacked
    \/ WasMoveLegal
    \/ IsCheck
    \/ IsCheckmate
    \/ Evaluate
    \/ MobilityScore

SpecQuery == InitQuery /\ [][NextQuery]_vars

(***************************************************************************)
(* Claims checked under SpecQuery                                           *)
(***************************************************************************)
\* the position with the square emptied and then given to a knight of color
\* holder, the other side to move and no en passant square
WithEnemyPieceOn(state, square, holder) ==
    LET cleared(side) == [p \in PieceTypes |-> side[p] \ {square}]
        white == cleared(state.boards.white)
        black == cleared(state.boards.black)
    IN [state EXCEPT
           !.boards = [white |-> IF holder = "White"
                                 THEN [white EXCEPT !.knight = @ \cup {square}] ELSE white,
                       black |-> IF holder = "Black"
                                 THEN [black EXCEPT !.knight = @ \cup {square}] ELSE black],
           !.en_passant = {},
           !.flags.active_color = Not(holder)]

\* the moves the generator gives the pieces of the side to move, castles left
\* out (a castle captures nothing) and the king's left out where the side has
\* no king
PieceMoves(ctx) ==
    get_pseudo_legal_knight_moves(ctx)
    \o get_pseudo_legal_diagonal_moves(ctx, ctx.friendly_pieces.bishop)
    \o get_pseudo_legal_diagonal_moves(ctx, ctx.friendly_pieces.queen)
    \o get_pseudo_legal_rank_file_moves(ctx, ctx.friendly_pieces.rook)
    \o get_pseudo_legal_rank_file_moves(ctx, ctx.friendly_pieces.queen)
    \o get_pseudo_legal_pawn_moves(ctx)
    \o (IF ctx.friendly_pieces.king = {} THEN <<>> ELSE get_pseudo_legal_king_moves(ctx))

\* brute force: with an enemy piece on the square, some pseudo-legal move of
\* by_color captures on it
CanCaptureOn(state, square, by_color) ==
    \E m \in Range(PieceMoves(MoveGeneratorContext(
                       WithEnemyPieceOn(state, square, Not(by_color))))) :
        is_capture(m) /\ m.to = square

\* C16: is_square_attacked(s, c) is true exactly when, s holding an enemy
\* piece, some pseudo-legal move of a piece of color c captures on s.
C16_AttackedIffCapturable ==
    last_op.op = "is_square_attacked" =>
        last_op.ret = CanCaptureOn(make_unmaker.state, last_op.square, last_op.by_color)

\* a square a pawn attacks
C16_Witness ==
    /\ last_op.op = "is_square_attacked"
    /\ last_op.ret
    /\ makes = 1
    /\ LET attackers == SideOf(make_unmaker.state, last_op.by_color)
       IN /\ \E p \in attackers.pawn :
                 \E m \in Range(PieceMoves(MoveGeneratorContext(
                        WithEnemyPieceOn(make_unmaker.state, last_op.square,
                                         Not(last_op.by_color))))) :
                    m.from = p /\ m.to = last_op.square /\ is_capture(m)
          /\ last_op.square \in union(attackers)

KingSquare(state, color) == get_first_square(SideOf(state, color).king)

\* C17: was_move_legal is true exactly when the king of the side that just
\* moved (the side not to move) cannot be captured by the side now to move;
\* is_check is true exactly when the king of the side to move can be captured
\* by the other side.
C17_LegalityAndCheck ==
    LET state == make_unmaker.state
        active == state.flags.active_color
    IN /\ last_op.op = "was_move_legal" =>
              last_op.ret = ~CanCaptureOn(state, KingSquare(state, Not(active)), active)
       /\ last_op.op = "is_check" =>
              last_op.ret = CanCaptureOn(state, KingSquare(state, active), Not(active))

\* was_move_legal refuses a move that has just been made while the side to
\* move is not in check itself
C17_Witness ==
    /\ last_op.op = "was_move_legal"
    /\ ~last_op.ret
    /\ makes = 1
    /\ ~is_check(make_unmaker.state)

\* the side to move is in check and every pseudo-legal move of its leaves its
\* king attacked
CheckedWithoutLegalMove(state) ==
    /\ is_check(state)
    /\ \A m \in Range(get_pseudo_legal_moves(state)) :
          ~was_move_legal(make_move(MakeUnmakerNew(state), m).state)

\* C19: is_checkmate returns true exactly when the side to move is in check
\* and none of its pseudo-legal moves passes was_move_legal, and evaluate
\* returns -100000 exactly in that case.
C19_CheckmateIffCheckedWithoutMove ==
    /\ last_op.op = "is_checkmate" =>
          last_op.ret = CheckedWithoutLegalMove(make_unmaker.state)
    /\ last_op.op = "evaluate" =>
          (last_op.ret = -100000) = CheckedWithoutLegalMove(make_unmaker.state)

\* the mate of test_is_checkmate, and a mate given by the move just made
C19_Witness ==
    /\ last_op.op = "evaluate"
    /\ last_op.ret = -100000
    /\ makes = 1
    /\ Range(get_pseudo_legal_moves(make_unmaker.state)) # {}

(***************************************************************************)
(* Nodes without a legal move                                               *)
(***************************************************************************)
NoLegalMove(state) ==
    \A m \in Range(get_pseudo_legal_moves(state)) : ~IsLegalMove(state, m)

\* C18: the score of a node in stalemate (no legal move, not in check) is
\* zero whatever the material, the score of a node in checkmate is the mate
\* score -100000.  Stated of the root, whose window is (MIN_SCORE, MAX_SCORE).
C18_StalemateScoresZero ==
    (call_stack = <<>> /\ returned.fn \in SearchFns /\ NoLegalMove(returned.entry.state)) =>
        returned.value = IF is_check(returned.entry.state) THEN CHECKMATE_SCORE ELSE 0

(***************************************************************************)
(* SpecOrder: add_moves_to_list at a node and then, move by move, at the    *)
(* nodes below it; each node pops its first move from prev_pv.              *)
(***************************************************************************)
PositionsOrder == {CastlingPosition, PawnPosition, CheckPosition, CapturesPosition}

LastOf(ms) == IF ms = <<>> THEN {} ELSE {ms[Len(ms)]}

\* prev_pv as a previous iteration can leave it: empty, or ending with a move
\* of the root (below it the move generated last in the position that move
\* leads to), or ending with a move that the root does not have
PrevPvsOrder(state) ==
    {<<>>, <<MoveNew(63, 0, "Capture")>>}
    \cup {<<m>> : m \in Range(get_pseudo_legal_moves(state))}
    \cup UNION {{<<c, m>> : c \in LastOf(get_pseudo_legal_moves(
                                         make_move(MakeUnmakerNew(state), m).state))} :
                   m \in Range(get_pseudo_legal_moves(state))}

InitOrder ==
    /\ \E p \in PositionsOrder :
          /\ make_unmaker = MakeUnmakerNew(p)
          /\ prev_pv \in PrevPvsOrder(p)
    /\ move_list = MoveListNew
    /\ transpos = TranspositionTableNew
    /\ max_depth = 1
    /\ call_stack = <<>>
    /\ returned = NoReturn
    /\ made = <<>>
    /\ makes = 0
    /\ unmakes = 0
    /\ snapshots = <<>>
    /\ stored = <<>>
    /\ last_op = [op |-> "new"]

AddMovesToList ==
    /\ move_list.current_ply = makes
    /\ \E r \in {add_moves_to_list(Ctx, prev_pv)} :
          /\ move_list' = r.ctx.move_list
          /\ prev_pv' = r.prev_pv
          /\ last_op' = [op |-> "add_moves_to_list", first |-> PopLast(prev_pv),
                         ply_number |-> r.ply_number, ply_size |-> r.ply_size]
    /\ UNCHANGED <<make_unmaker, transpos, max_depth, call_stack, returned, made, makes,
                   unmakes, snapshots, stored>>

NextOrder == AddMovesToList \/ PlayMove

SpecOrder == InitOrder /\ [][NextOrder]_vars

(***************************************************************************)
(* Claims checked under SpecOrder                                           *)
(***************************************************************************)
\* the ply is: the move handed over when it is in the ply, then the moves
\* that front(m) holds of, then the others
OrderedBy(ply, first, front(_)) ==
    LET placed == first # NoMove /\ first[1] \in Range(ply)
        rest == IF placed THEN 2 ELSE 1
    IN /\ placed => ply[1] = first[1]
       /\ \A i, j \in rest..Len(ply) : (i < j /\ front(ply[j])) => front(ply[i])

OrderedPly == PlyMoves(move_list, last_op.ply_number)

\* C20 as stated: at a search node the move handed over by the previous
\* iteration comes first when it is in the list, then the captures, castles
\* and promotions, then the quiet moves.
C20_LoudWithCastlesFirst ==
    last_op.op = "add_moves_to_list" =>
        OrderedBy(OrderedPly, last_op.first,
                  LAMBDA m : is_capture(m) \/ is_castle(m) \/ is_promotion(m))

\* C20 amended: at a search node the move handed over by the previous
\* iteration comes first when it is in the list, then the captures and
\* promotions, then the other moves, castles among them.
C20_CapturesAndPromotionsFirst ==
    last_op.op = "add_moves_to_list" =>
        OrderedBy(OrderedPly, last_op.first, LAMBDA m : is_capture(m) \/ is_promotion(m))

\* a ply with a capture, a quiet move and a castle, ordered after a move that
\* was not generated first
C20_Witness ==
    /\ last_op.op = "add_moves_to_list"
    /\ last_op.first # NoMove
    /\ last_op.first[1] \in Range(OrderedPly)
    /\ last_op.first[1] # get_pseudo_legal_moves(make_unmaker.state)[1]
    /\ \E i, j, k \in 2..Len(OrderedPly) :
          /\ i < j /\ j < k
          /\ is_capture(OrderedPly[i])
          /\ OrderedPly[j].code = "QuietMove"
          /\ is_castle(OrderedPly[k])

(***************************************************************************)
(* Quiescence                                                               *)
(***************************************************************************)
SearchFrames == {k \in 1..Len(call_stack) : call_stack[k].fn \in SearchFns}

\* C21: no call of the search is deeper than max_depth + 4, and a quiesce
\* entered at that depth returns the static evaluation with an empty PV, having
\* generated no ply and made no move, whatever captures the position offers.
C21_QuiescenceDepthCeiling ==
    /\ \A k \in SearchFrames :
          /\ call_stack[k].depth <= max_depth + 4
          /\ call_stack[k].depth = max_depth + 4 => call_stack[k].pc = "entry"
    /\ last_op.op = "depth limit" =>
          /\ returned.depth = max_depth + 4
          /\ returned.value = StaticScore(returned.entry.state)
          /\ returned.pv = <<>>
          /\ returned.made = 0
          /\ returned.exit = returned.entry
          /\ Len(call_stack) = returned.depth

\* the ceiling stops a line of four captures in a position where a fifth
\* capture is legal
C21_Witness ==
    /\ last_op.op = "depth limit"
    /\ max_depth = 0
    /\ \E m \in Range(get_pseudo_legal_moves(returned.entry.state)) :
          is_capture(m) /\ IsLegalMove(returned.entry.state, m)

\* the beta a call that has just returned was given: the negated alpha of the
\* caller that waits for it, MAX_SCORE at the root
BetaOfReturned == IF call_stack = <<>> THEN MAX_SCORE ELSE -Top.alpha

\* C22: quiesce makes only captures and promotions, never returns less than
\* the static evaluation of its node, and when that evaluation is at least
\* beta returns it at once: no move made, empty PV, ply segment dropped.
C22_QuiesceLoudMovesAndStandPat ==
    /\ \A k \in SearchFrames :
          call_stack[k].fn = "quiesce" =>
             /\ call_stack[k].made > 0 =>
                   /\ is_capture(call_stack[k].m) \/ is_promotion(call_stack[k].m)
                   /\ call_stack[k].m.code \notin {"QuietMove", "DoublePawnPush",
                                                   "KingCastle", "QueenCastle"}
             /\ call_stack[k].pc # "entry" => call_stack[k].static_score < call_stack[k].beta
    /\ (returned.fn = "quiesce" /\ last_op.op \in {"depth limit", "stand pat", "no capture", "store"}) =>
          returned.value >= StaticScore(returned.entry.state)
    /\ last_op.op = "stand pat" =>
          /\ returned.value = StaticScore(returned.entry.state)
          /\ returned.value >= BetaOfReturned
          /\ returned.made = 0
          /\ returned.pv = <<>>
          /\ returned.exit = returned.entry

\* a stand-pat return from a node that had a legal capture to try
C22_Witness ==
    /\ last_op.op = "stand pat"
    /\ returned.fn = "quiesce"
    /\ returned.made = 0
    /\ \E m \in Range(get_pseudo_legal_moves(returned.entry.state)) :
          is_capture(m) /\ IsLegalMove(returned.entry.state, m)

(***************************************************************************)
(* Invariants of the positions make_move and unmake_move produce            *)
(***************************************************************************)
Rights == {"white_king_castle", "white_queen_castle", "black_king_castle", "black_queen_castle"}

RightColor(r) == IF r \in {"white_king_castle", "white_queen_castle"} THEN "White" ELSE "Black"

\* e1 or e8
KingOrigin(color) == IF color = "White" THEN 4 ELSE 60

\* h1, a1, h8 or a8
RookCorner(r) ==
    CASE r = "white_king_castle" -> 7
      [] r = "white_queen_castle" -> 0
      [] r = "black_king_castle" -> 63
      [] r = "black_queen_castle" -> 56

\* the MakeUnmaker the k-th move still made has led to
AfterMade(k) == IF k < Len(made) THEN made[k + 1].before ELSE make_unmaker

\* m, played in state, moves the king or the rook of right r off its original
\* square, or captures on that rook's original square
TakesRight(state, m, r) ==
    LET mover == state.flags.active_color
        own == state.boards[ColorField(mover)]
    IN IF mover = RightColor(r)
       THEN \/ m.from = KingOrigin(mover) /\ m.from \in own.king
            \/ m.from = RookCorner(r) /\ m.from \in own.rook
       ELSE is_capture(m) /\ m.to = RookCorner(r)

\* C23: along the moves made, no castling right that is clear is set again,
\* and a right is cleared by the move that takes the king or its rook off the
\* original square or captures on the rook's original square.
C23_CastlingRightsOnlyCleared ==
    \A k \in 1..Len(made) : \A r \in Rights :
       LET before == made[k].before.state
           after == AfterMade(k).state
       IN /\ after.flags[r] => before.flags[r]
          /\ (before.flags[r] /\ TakesRight(before, made[k].m, r)) => ~after.flags[r]

\* Rh1xh8 has cost White the king-side right (the rook left h1) and Black the
\* king-side right (the capture on h8); a black reply later both are still clear
\* and the two queen-side rights still set or cleared by the reply alone
C23_Witness ==
    /\ Len(made) = 2
    /\ made[1].before.state = RooksPosition
    /\ made[1].m = MoveNew(7, 63, "Capture")
    /\ made[2].before.state.flags =
           Flags("Black", [white_king_castle |-> FALSE, white_queen_castle |-> TRUE,
                           black_king_castle |-> FALSE, black_queen_castle |-> TRUE])
    /\ ~make_unmaker.state.flags.white_king_castle
    /\ ~make_unmaker.state.flags.black_king_castle
    /\ make_unmaker.state.flags.white_queen_castle

\* the twelve piece bitboards, named by side and piece
BoardNames == {"white", "black"} \X PieceTypes

PairwiseDisjoint(state) ==
    \A a, b \in BoardNames :
       a # b => state.boards[a[1]][a[2]] \cap state.boards[b[1]][b[2]] = {}

OneKingEach(state) ==
    Cardinality(state.boards.white.king) = 1 /\ Cardinality(state.boards.black.king) = 1

\* every move made so far but the last has passed was_move_legal, and so has
\* the last one
AllMadeLegal ==
    /\ make_unmaker.panic = NoPanic
    /\ made = <<>> \/ was_move_legal(make_unmaker.state)

\* C24: in every position reached by making pseudo-legal moves that pass
\* was_move_legal, and by unmaking them, no square is set in two of the twelve
\* piece bitboards and each side has exactly one king.
C24_BoardsDisjointOneKingEach ==
    AllMadeLegal => PairwiseDisjoint(make_unmaker.state) /\ OneKingEach(make_unmaker.state)

\* White has castled king side and Black has answered Ra8xa1
C24_Witness ==
    /\ AllMadeLegal
    /\ Len(made) = 2
    /\ made[1].before.state = RooksPosition
    /\ made[1].m.code = "KingCastle"
    /\ made[2].m = MoveNew(56, 0, "Capture")
    /\ make_unmaker.state.boards.white.rook = {5}
    /\ make_unmaker.state.boards.black.rook = {0, 63}
    /\ PairwiseDisjoint(make_unmaker.state)

\* C25: the en-passant bitboard never has more than one bit; after make_move
\* it holds the square the pawn passed over when the move was a double pawn
\* push and is empty after every other move, a castle included.
C25_EnPassantOnlyAfterDoublePush ==
    /\ make_unmaker.panic = NoPanic => Cardinality(make_unmaker.state.en_passant) <= 1
    /\ \A k \in 1..Len(made) :
          AfterMade(k).state.en_passant =
              IF made[k].m.code = "DoublePawnPush"
              THEN {(made[k].m.from + made[k].m.to) \div 2}
              ELSE {}

\* e2-e4 has set e3 and the reply, which is not a double push, has emptied it
\* again
C25_Witness ==
    /\ Len(made) = 2
    /\ made[1].before.state = PawnPosition
    /\ made[1].m = MoveNew(12, 28, "DoublePawnPush")
    /\ made[2].before.state.en_passant = {20}
    /\ made[2].m.code # "DoublePawnPush"
    /\ make_unmaker.state.en_passant = {}

\* the square a capture empties: one rank behind the destination, on the
\* mover's side of it, for an en-passant capture, the destination otherwise
CapturedSquare(state, m) ==
    IF m.code = "EnPassant"
    THEN (IF state.flags.active_color = "White" THEN m.to - 8 ELSE m.to + 8)
    ELSE m.to

\* C28: a capture removes the enemy piece on the captured square and nothing
\* else from the enemy bitboards, and pushes that piece's type in the undo
\* frame; a move that is no capture leaves the enemy bitboards as they were.
C28_CaptureRemovesOneEnemyPiece ==
    \A k \in 1..Len(made) :
       LET state == made[k].before.state
           m == made[k].m
           ef == ColorField(Not(state.flags.active_color))
           sq == CapturedSquare(state, m)
       IN IF is_capture(m)
          THEN \E p \in PieceTypes :
                  /\ sq \in state.boards[ef][p]
                  /\ AfterMade(k).state.boards[ef] = [state.boards[ef] EXCEPT ![p] = @ \ {sq}]
                  /\ made[k].pushed.captured_piece_type = p
                  /\ m.code = "EnPassant" => p = "pawn"
          ELSE /\ AfterMade(k).state.boards[ef] = state.boards[ef]
               /\ made[k].pushed.captured_piece_type = "none"

\* c4xd3 en passant has taken the white pawn off d4, not off d3
C28_Witness ==
    /\ Len(made) = 1
    /\ made[1].before.state = CheckPosition
    /\ made[1].m = MoveNew(26, 19, "EnPassant")
    /\ made[1].pushed.captured_piece_type = "pawn"
    /\ 27 \in made[1].before.state.boards.white.pawn
    /\ make_unmaker.state.boards.white.pawn = {}
    /\ make_unmaker.state.boards.black.pawn = {19}

\* the king and the rook of right r stand on their original squares
OnOriginalSquares(state, r) ==
    LET own == state.boards[ColorField(RightColor(r))]
    IN KingOrigin(RightColor(r)) \in own.king /\ RookCorner(r) \in own.rook

\* the right a castle move uses
RightOfCastle(state, m) ==
    IF state.flags.active_color = "White"
    THEN (IF m.code = "KingCastle" THEN "white_king_castle" ELSE "white_queen_castle")
    ELSE (IF m.code = "KingCastle" THEN "black_king_castle" ELSE "black_queen_castle")

\* C30: a castling right that is set has its king and its rook on their
\* original squares, so every castle made moves a king from e1 or e8 and a rook
\* from the corner.
C30_RightImpliesKingAndRookAtHome ==
    /\ make_unmaker.panic = NoPanic =>
          \A r \in Rights : make_unmaker.state.flags[r] => OnOriginalSquares(make_unmaker.state, r)
    /\ \A k \in 1..Len(made) :
          is_castle(made[k].m) =>
             /\ made[k].before.state.flags[RightOfCastle(made[k].before.state, made[k].m)]
             /\ OnOriginalSquares(made[k].before.state,
                                  RightOfCastle(made[k].before.state, made[k].m))

\* Rh1-h2 has cost White the king-side right and left the queen-side one with
\* king and rook at home; Black has then castled king side from e8 and h8
C30_Witness ==
    /\ Len(made) = 2
    /\ made[1].before.state = RooksPosition
    /\ made[1].m = MoveNew(7, 15, "QuietMove")
    /\ made[2].m = MoveNew(60, 62, "KingCastle")
    /\ OnOriginalSquares(made[2].before.state, "black_king_castle")
    /\ ~make_unmaker.state.flags.white_king_castle
    /\ make_unmaker.state.flags.white_queen_castle
    /\ OnOriginalSquares(make_unmaker.state, "white_queen_castle")
    /\ make_unmaker.state.boards.black.king = {62}
    /\ make_unmaker.state.boards.black.rook = {56, 61}

(***************************************************************************)
(* Evaluation leaves the position alone; en passant along the king's rank   *)
(***************************************************************************)
EvaluationQueries == {"evaluate", "is_checkmate", "mobility_score"}

\* C26: evaluate, is_checkmate and mobility_score return with the GameState,
\* the zobrist hash, the depth of the irreversible stack and the ply number
\* of the move list as they found them.
C26_EvaluationLeavesPositionAlone ==
    last_op.op \in EvaluationQueries =>
       /\ make_unmaker.state = last_op.before.state
       /\ make_unmaker.zobrist_hash = last_op.before.zobrist_hash
       /\ Len(make_unmaker.irreversible_stack) = last_op.before.stack_depth
       /\ get_ply_number(move_list) = last_op.before.ply_number

\* is_checkmate has made and unmade moves of a side that is in check and has a
\* legal move, after a move was played: the en-passant square and the stack
\* depth of one are as before
C26_Witness ==
    /\ last_op.op = "is_checkmate"
    /\ ~last_op.ret
    /\ is_check(make_unmaker.state)
    /\ makes = 1
    /\ Len(make_unmaker.irreversible_stack) = 1
    /\ make_unmaker.state = last_op.before.state
    /\ make_unmaker.zobrist_hash = last_op.before.zobrist_hash

\* the squares strictly between two squares of one rank
BetweenOnRank(a, b) == {s \in Squares : (a < s /\ s < b) \/ (b < s /\ s < a)}

\* the en-passant move m of state takes both pawns off the rank of the mover's
\* king and nothing else stands between that king and an enemy rook or queen
\* of the rank
ExposesKingOnRank(state, m) ==
    LET mover == state.flags.active_color
        own == state.boards[ColorField(mover)]
        enemy == state.boards[ColorField(Not(mover))]
        pawns == {m.from, CapturedSquare(state, m)}
    IN /\ m.code = "EnPassant"
       /\ \E k \in own.king : \E q \in enemy.rook \cup enemy.queen :
             /\ k \div 8 = m.from \div 8
             /\ q \div 8 = m.from \div 8
             /\ pawns \subseteq BetweenOnRank(k, q)
             /\ (BetweenOnRank(k, q) \ pawns) \cap (union(own) \cup union(enemy)) = {}

\* C27: after make_move of an en-passant capture that clears the rank between
\* the mover's king and an enemy rook or queen, was_move_legal is false.
C27_EnPassantDiscoveredCheckRejected ==
    (/\ last_op.op = "was_move_legal"
     /\ last_op.asked_after.op = "make_move"
     /\ ExposesKingOnRank(last_op.asked_after.before, last_op.asked_after.m)) =>
        ~last_op.ret

\* e5xd6 en passant with the king on a5 and a black rook on h5
C27_Witness ==
    /\ last_op.op = "was_move_legal"
    /\ last_op.asked_after.op = "make_move"
    /\ last_op.asked_after.before = EnPassantRookPosition
    /\ last_op.asked_after.m = MoveNew(36, 43, "EnPassant")
    /\ ExposesKingOnRank(EnPassantRookPosition, last_op.asked_after.m)
    /\ make_unmaker.state.boards.black.pawn = {}
    /\ ~last_op.ret

(***************************************************************************)
(* The castles the generator emits                                          *)
(***************************************************************************)
\* the castle move of right r
CastleMove(r) ==
    CASE r = "white_king_castle" -> MoveNew(4, 6, "KingCastle")
      [] r = "white_queen_castle" -> MoveNew(4, 2, "QueenCastle")
      [] r = "black_king_castle" -> MoveNew(60, 62, "KingCastle")
      [] r = "black_queen_castle" -> MoveNew(60, 58, "QueenCastle")

\* the side to move holds right r, the squares between king and rook are
\* empty, and the opponent attacks neither the king's square nor the square
\* the king crosses
CastleAllowed(state, r) ==
    LET m == CastleMove(r)
        opponent == Not(RightColor(r))
    IN /\ state.flags.active_color = RightColor(r)
       /\ state.flags[r]
       /\ BetweenOnRank(m.from, RookCorner(r))
             \cap (union(state.boards.white) \cup union(state.boards.black)) = {}
       /\ ~is_square_attacked(state, m.from, opponent)
       /\ ~is_square_attacked(state, (m.from + m.to) \div 2, opponent)

\* C29: the generator emits a castle exactly when the side to move holds the
\* right, the squares between king and rook are empty and neither the king's
\* square nor the square it crosses is attacked; an attacked destination does
\* not hold the castle back, and was_move_legal rejects it once it is made.
C29_CastleEmittedWithoutDestinationTest ==
    /\ make_unmaker.panic = NoPanic =>
          \A r \in Rights :
             CastleMove(r) \in Range(get_pseudo_legal_moves(make_unmaker.state))
                <=> CastleAllowed(make_unmaker.state, r)
    /\ \A k \in 1..Len(made) :
          is_castle(made[k].m) =>
             /\ CastleAllowed(made[k].before.state,
                              RightOfCastle(made[k].before.state, made[k].m))
             /\ is_square_attacked(made[k].before.state, made[k].m.to,
                                   Not(made[k].before.state.flags.active_color))
                   => ~was_move_legal(AfterMade(k).state)

\* Black castles queen side onto c8, which the pawn on b7 attacks
C29_Witness ==
    /\ Len(made) = 2
    /\ made[1].before.state = CornerPosition
    /\ made[2].m = MoveNew(60, 58, "QueenCastle")
    /\ is_square_attacked(made[2].before.state, 58, "White")
    /\ CastleAllowed(made[2].before.state, "black_queen_castle")
    /\ make_unmaker.state.boards.black.king = {58}
    /\ ~was_move_legal(make_unmaker.state)

(***************************************************************************)
(* What a castle does to the position                                       *)
(***************************************************************************)
\* the squares of a castle: king from and to, rook from and to
CastleSquares(color, code) ==
    IF color = "White"
    THEN (IF code = "KingCastle" THEN [king_from |-> 4, king_to |-> 6, rook_from |-> 7, rook_to |-> 5]
          ELSE [king_from |-> 4, king_to |-> 2, rook_from |-> 0, rook_to |-> 3])
    ELSE (IF code = "KingCastle" THEN [king_from |-> 60, king_to |-> 62, rook_from |-> 63, rook_to |-> 61]
          ELSE [king_from |-> 60, king_to |-> 58, rook_from |-> 56, rook_to |-> 59])

\* C31: a castle made puts king and rook on the fixed squares of its side and
\* direction, takes them off e1/e8 and the corner, empties the en-passant
\* board, clears both rights of the mover and changes no other bitboard.
C31_CastleRelocatesKingAndRook ==
    \A k \in 1..Len(made) :
       is_castle(made[k].m) =>
          LET before == made[k].before.state
              after == AfterMade(k).state
              mover == before.flags.active_color
              cf == ColorField(mover)
              ef == ColorField(Not(mover))
              sq == CastleSquares(mover, made[k].m.code)
          IN /\ after.boards[cf].king = {sq.king_to}
             /\ after.boards[cf].rook = (before.boards[cf].rook \ {sq.rook_from}) \cup {sq.rook_to}
             /\ sq.king_from \in before.boards[cf].king
             /\ sq.rook_from \in before.boards[cf].rook
             /\ sq.king_from \notin union(after.boards[cf])
             /\ sq.rook_from \notin union(after.boards[cf])
             /\ \A p \in PieceTypes \ {"king", "rook"} :
                   after.boards[cf][p] = before.boards[cf][p]
             /\ after.boards[ef] = before.boards[ef]
             /\ after.en_passant = {}
             /\ IF mover = "White"
                THEN /\ ~after.flags.white_king_castle /\ ~after.flags.white_queen_castle
                     /\ after.flags.black_king_castle = before.flags.black_king_castle
                     /\ after.flags.black_queen_castle = before.flags.black_queen_castle
                ELSE /\ ~after.flags.black_king_castle /\ ~after.flags.black_queen_castle
                     /\ after.flags.white_king_castle = before.flags.white_king_castle
                     /\ after.flags.white_queen_castle = before.flags.white_queen_castle

\* White castles queen side with both rights set, after which Black castles
\* king side
C31_Witness ==
    /\ Len(made) = 2
    /\ made[1].before.state = RooksPosition
    /\ made[1].m = MoveNew(4, 2, "QueenCastle")
    /\ made[2].before.state.boards.white.king = {2}
    /\ made[2].before.state.boards.white.rook = {3, 7}
    /\ ~made[2].before.state.flags.white_king_castle
    /\ ~made[2].before.state.flags.white_queen_castle
    /\ made[2].m = MoveNew(60, 62, "KingCastle")
    /\ make_unmaker.state.boards.black.king = {62}
    /\ make_unmaker.state.boards.black.rook = {56, 61}

(***************************************************************************)
(* SpecGen: MoveGenerator::get_pseudo_legal_moves into a fresh ply of the   *)
(* move list, in the positions of the perft tests and the positions one     *)
(* pseudo-legal move away from them.                                        *)
(***************************************************************************)
\* 1r2k3/P7/8/3pP3/7p/8/6PP/4K3 w - d6 0 1
PawnKindsPosition ==
    [boards |-> [white |-> [NoPieces EXCEPT !.pawn = {14, 15, 36, 48}, !.king = {4}],
                 black |-> [NoPieces EXCEPT !.pawn = {31, 35}, !.rook = {57}, !.king = {60}]],
     en_passant |-> {43},
     flags |-> Flags("White", NoRights),
     halfmove |-> 0]

PositionsGen ==
    {initial_fen, position_2, position_3, PawnPosition, CheckPosition, CapturesPosition,
     PawnKindsPosition}

InitGen ==
    /\ make_unmaker \in {MakeUnmakerNew(p) : p \in PositionsGen}
    /\ last_op = [op |-> "new"]
    /\ Idle

\* asked of the position the program keeps: the starting one, or the one a
\* legal move has left
GetPseudoLegalMoves ==
    /\ last_op.op \in {"new", "make_move"}
    /\ makes = 0 \/ was_move_legal(make_unmaker.state)
    /\ move_list' = generate_pseudo_legal_moves(make_unmaker.state, new_ply(move_list))
    /\ last_op' = [op |-> "get_pseudo_legal_moves"]
    /\ UNCHANGED make_unmaker
    /\ QueryIdle

NextGen == GetPseudoLegalMoves \/ PlayMove

SpecGen == InitGen /\ [][NextGen]_vars

(***************************************************************************)
(* Claims checked under SpecGen                                             *)
(***************************************************************************)
\* the moves just generated, first to last
Generated == get_current_ply(move_list)

\* the generated moves that leave square from
GeneratedFrom(from) == {i \in 1..Len(Generated) : Generated[i].from = from}

\* the k-th square from s in the direction (df, dr) of files and ranks, and
\* whether it is on the board
StepSquare(s, df, dr, k) == s + k * (df + 8 * dr)

StepOnBoard(s, df, dr, k) ==
    /\ file(s) + k * df \in 0..7
    /\ rank(s) + k * dr \in 0..7

\* the number of squares between s and the edge of the board in a direction
RayLength(s, df, dr) == Cardinality({k \in 1..7 : StepOnBoard(s, df, dr, k)})

Diagonals == {<<1, 1>>, <<-1, 1>>, <<1, -1>>, <<-1, -1>>}

Straights == {<<0, 1>>, <<0, -1>>, <<1, 0>>, <<-1, 0>>}

\* the number of steps to the nearest occupied square of the ray, 0 when the
\* ray is empty
NearestOccupied(occupied, s, d) ==
    LET hits == {k \in 1..RayLength(s, d[1], d[2]) : StepSquare(s, d[1], d[2], k) \in occupied}
    IN IF hits = {} THEN 0 ELSE CHOOSE k \in hits : \A j \in hits : k <= j

\* the moves a slider on s owes to the ray in direction d
RayMoves(ctx, s, d) ==
    LET j == NearestOccupied(ctx.friendly_occupation \cup ctx.enemy_occupation, s, d)
        reach == IF j = 0 THEN RayLength(s, d[1], d[2]) ELSE j - 1
    IN {MoveNew(s, StepSquare(s, d[1], d[2], k), "QuietMove") : k \in 1..reach}
       \cup (IF j # 0 /\ StepSquare(s, d[1], d[2], j) \in ctx.enemy_occupation
             THEN {MoveNew(s, StepSquare(s, d[1], d[2], j), "Capture")} ELSE {})

\* the generated moves of the slider on s are, move for move and each once,
\* the moves its rays give
SliderMovesAre(ctx, s, directions) ==
    /\ {Generated[i] : i \in GeneratedFrom(s)} = UNION {RayMoves(ctx, s, d) : d \in directions}
    /\ Cardinality(GeneratedFrom(s)) =
          Cardinality(UNION {RayMoves(ctx, s, d) : d \in directions})

SlidersAsRays(ctx) ==
    /\ \A s \in ctx.friendly_pieces.bishop : SliderMovesAre(ctx, s, Diagonals)
    /\ \A s \in ctx.friendly_pieces.rook : SliderMovesAre(ctx, s, Straights)
    /\ \A s \in ctx.friendly_pieces.queen : SliderMovesAre(ctx, s, Diagonals \cup Straights)

\* C32: on each ray of each slider the generator gives a quiet move to every
\* square before the nearest occupied one (to the whole ray when it is empty),
\* one capture on that square when an enemy stands there, none when a friend
\* does, and nothing beyond it.
C32_SliderMovesStopAtNearestPiece ==
    last_op.op = "get_pseudo_legal_moves" => SlidersAsRays(MoveGeneratorContext(make_unmaker.state))

\* position 2 of the perft tests: the queen on f3 takes on f6 and h3, stops
\* before its own pawns and knights, and has free rays toward g3 and d3
C32_Witness ==
    /\ last_op.op = "get_pseudo_legal_moves"
    /\ make_unmaker.state = position_2
    /\ {Generated[i] : i \in GeneratedFrom(21)} =
          {MoveNew(21, 45, "Capture"), MoveNew(21, 23, "Capture"),
           MoveNew(21, 29, "QuietMove"), MoveNew(21, 37, "QuietMove"),
           MoveNew(21, 22, "QuietMove"), MoveNew(21, 20, "QuietMove"),
           MoveNew(21, 19, "QuietMove"), MoveNew(21, 30, "QuietMove"),
           MoveNew(21, 39, "QuietMove")}

\* the generated moves from one square to another, as a sequence of codes in
\* the order of generation
CodesBetween(from, to) ==
    LET RECURSIVE Pick(_)
        Pick(i) ==
            IF i > Len(Generated) THEN <<>>
            ELSE (IF Generated[i].from = from /\ Generated[i].to = to
                  THEN <<Generated[i].code>> ELSE <<>>) \o Pick(i + 1)
    IN Pick(1)

\* one rank ahead for the side to move, the rank its pawns start on and the
\* rank they promote on
Ahead(color) == IF color = "White" THEN 8 ELSE -8

StartRank(color) == IF color = "White" THEN 1 ELSE 6

LastRank(color) == IF color = "White" THEN 7 ELSE 0

\* a double push leaves the starting rank and crosses and reaches empty squares
DoublePushLawful(ctx, m) ==
    LET color == ctx.state.flags.active_color
        occupied == ctx.friendly_occupation \cup ctx.enemy_occupation
    IN /\ rank(m.from) = StartRank(color)
       /\ m.to = m.from + 2 * Ahead(color)
       /\ m.from + Ahead(color) \notin occupied
       /\ m.to \notin occupied

\* a pawn move onto the last rank comes as the four promotions and only so
PromotionLawful(ctx, m) ==
    LET straight == file(m.from) = file(m.to)
    IN CodesBetween(m.from, m.to) =
          IF straight
          THEN <<"QueenPromotion", "RookPromotion", "BishopPromotion", "KnightPromotion">>
          ELSE <<"QueenPromotionCapture", "RookPromotionCapture",
                 "BishopPromotionCapture", "KnightPromotionCapture">>

\* a diagonal pawn move lands on an enemy piece or on the en-passant square,
\* and is coded EnPassant exactly on the latter
DiagonalLawful(ctx, m) ==
    /\ m.to \in ctx.enemy_occupation \cup ctx.state.en_passant
    /\ m.code = "EnPassant" <=> m.to \in ctx.state.en_passant

PawnMovesLawful(ctx) ==
    \A i \in 1..Len(Generated) :
        LET m == Generated[i]
            color == ctx.state.flags.active_color
        IN /\ m.code = "DoublePawnPush" =>
                 m.from \in ctx.friendly_pieces.pawn /\ DoublePushLawful(ctx, m)
           /\ m.code = "EnPassant" => m.from \in ctx.friendly_pieces.pawn
           /\ is_promotion(m) =>
                 m.from \in ctx.friendly_pieces.pawn /\ rank(m.to) = LastRank(color)
           /\ m.from \in ctx.friendly_pieces.pawn =>
                 /\ rank(m.to) = LastRank(color) => PromotionLawful(ctx, m)
                 /\ file(m.from) # file(m.to) => DiagonalLawful(ctx, m)
                 /\ file(m.from) = file(m.to) => m.to \notin ctx.enemy_occupation

\* C33: a double pawn push is generated only from the starting rank over two
\* empty squares; a pawn move onto the last rank is generated as the four
\* promotions (their capture codes for a capture) and never as a plain move;
\* a diagonal pawn move is generated only onto an enemy piece or the
\* en-passant square, coded EnPassant exactly when it goes to that square.
C33_PawnMovesByKind ==
    last_op.op = "get_pseudo_legal_moves" => PawnMovesLawful(MoveGeneratorContext(make_unmaker.state))

\* pawn a7 promotes on a8 and by taking b8, pawn e5 takes d5-d6 en passant,
\* pawn g2 has its double push and pawn h2, facing a pawn on h4, has not
C33_Witness ==
    /\ last_op.op = "get_pseudo_legal_moves"
    /\ make_unmaker.state = PawnKindsPosition
    /\ Len(CodesBetween(48, 56)) = 4
    /\ Len(CodesBetween(48, 57)) = 4
    /\ CodesBetween(36, 43) = <<"EnPassant">>
    /\ CodesBetween(14, 30) = <<"DoublePawnPush">>
    /\ CodesBetween(15, 23) = <<"QuietMove">>
    /\ CodesBetween(15, 31) = <<>>

(***************************************************************************)
(* The fatal paths of make_move, unmake_move and MoveList                   *)
(***************************************************************************)
PromotionPieces == {"knight", "bishop", "rook", "queen"}

\* the frame on top is about to read its next move with get_move
ReadsNextMove ==
    /\ call_stack # <<>>
    /\ Top.fn \in {"alpha_beta_search", "quiesce", "recursive_perft"}
    /\ Top.pc = "loop"
    /\ Top.i < Top.ply_size

\* the assertions of get_ply_size and get_move
AccessInBounds(ml, ply, index) ==
    /\ ply # 0
    /\ ply <= ml.current_ply
    /\ ply <= Len(ml.ply_first_move)
    /\ index < get_ply_size(ml, ply)
    /\ ml.ply_first_move[ply] + index + 1 <= Len(ml.moves)

\* the frames that wait for a call to return have each made a move that is
\* still to be unmade
WaitingFrames == {k \in 1..Len(call_stack) : call_stack[k].pc = "wait"}

\* the frame make_move pushed for the move the k-th waiting frame has made
FrameOfWaiting(k) ==
    make_unmaker.irreversible_stack[Cardinality({j \in WaitingFrames : j <= k})]

FatalPathsUnreached ==
    /\ make_unmaker.panic = NoPanic
    /\ move_list.panic = NoPanic
    /\ ReadsNextMove =>
          /\ AccessInBounds(move_list, Top.ply_number, Top.i)
          /\ is_promotion(get_move(move_list, Top.ply_number, Top.i)) =>
                promotion(get_move(move_list, Top.ply_number, Top.i)) \in PromotionPieces
    /\ Len(make_unmaker.irreversible_stack) = Cardinality(WaitingFrames)
    /\ \A k \in WaitingFrames :
          is_capture(call_stack[k].m) => FrameOfWaiting(k).captured_piece_type # "none"

\* C34: while perft or a search runs from one of the positions, no fatal path
\* is taken: every promotion made names one of the four pieces, every capture
\* to be unmade has its captured piece type recorded, every unmake_move finds
\* a frame on the irreversible stack, and every read of the move list names a
\* ply between 1 and the current one and an index below the size of that ply.
C34_NoFatalPathInPerftAndSearch == FatalPathsUnreached

\* a frame waits on a capture it has made while the frame above it, having
\* made and unmade a capture of its own, is about to read its next move
C34_Witness ==
    /\ ReadsNextMove
    /\ Top.i > 0
    /\ is_capture(Top.m)
    /\ Top.unmade = Top.made
    /\ \E k \in WaitingFrames : is_capture(call_stack[k].m)

(***************************************************************************)
(* SpecMaps: the tables MoveMaps::new builds, read one entry at a time      *)
(***************************************************************************)
\* the eight ray maps with the direction of each in files and ranks
RayMaps ==
    {[name |-> "ne_diagonal", map |-> ne_diagonal_map, d |-> <<1, 1>>],
     [name |-> "nw_diagonal", map |-> nw_diagonal_map, d |-> <<-1, 1>>],
     [name |-> "sw_diagonal", map |-> sw_diagonal_map, d |-> <<-1, -1>>],
     [name |-> "se_diagonal", map |-> se_diagonal_map, d |-> <<1, -1>>],
     [name |-> "e_rank", map |-> e_rank_map, d |-> <<1, 0>>],
     [name |-> "w_rank", map |-> w_rank_map, d |-> <<-1, 0>>],
     [name |-> "n_file", map |-> n_file_map, d |-> <<0, 1>>],
     [name |-> "s_file", map |-> s_file_map, d |-> <<0, -1>>]}

InitMaps ==
    /\ make_unmaker = MakeUnmakerNew(initial_fen)
    /\ last_op = [op |-> "new"]
    /\ Idle

MapsIdle ==
    UNCHANGED <<make_unmaker, move_list, transpos, max_depth, prev_pv, call_stack, returned,
                made, makes, unmakes, snapshots, stored>>

\* move_maps.knight[square]
KnightMap ==
    /\ \E square \in Squares :
          last_op' = [op |-> "knight", square |-> square, board |-> knight_map[square]]
    /\ MapsIdle

\* move_maps.king[square]
KingMap ==
    /\ \E square \in Squares :
          last_op' = [op |-> "king", square |-> square, board |-> king_map[square]]
    /\ MapsIdle

\* move_maps.white_pawn_attack[square] and move_maps.black_pawn_attack[square]
PawnAttackMap ==
    /\ \E square \in Squares, color \in Colors :
          last_op' = [op |-> "pawn_attack", square |-> square, color |-> color,
                      board |-> IF color = "White" THEN white_pawn_attack_map[square]
                                ELSE black_pawn_attack_map[square]]
    /\ MapsIdle

\* one of the eight ray maps at square
RayMap ==
    /\ \E square \in Squares, r \in RayMaps :
          last_op' = [op |-> "ray", square |-> square, name |-> r.name, d |-> r.d,
                      board |-> r.map[square]]
    /\ MapsIdle

NextMaps == KnightMap \/ KingMap \/ PawnAttackMap \/ RayMap

SpecMaps == InitMaps /\ [][NextMaps]_vars

(***************************************************************************)
(* Claims checked under SpecMaps                                            *)
(***************************************************************************)
FileDistance(a, b) == IF file(a) >= file(b) THEN file(a) - file(b) ELSE file(b) - file(a)

\* the squares from s, s itself left out, to the edge of the board in direction d
SquaresToEdge(s, d) == {StepSquare(s, d[1], d[2], k) : k \in 1..RayLength(s, d[1], d[2])}

MapEntryLawful(entry) ==
    /\ entry.board \subseteq Squares
    /\ entry.op = "knight" => \A t \in entry.board : FileDistance(entry.square, t) <= 2
    /\ entry.op = "king" => \A t \in entry.board : FileDistance(entry.square, t) <= 1
    /\ entry.op = "pawn_attack" => \A t \in entry.board : FileDistance(entry.square, t) <= 1
    /\ entry.op = "ray" => entry.board = SquaresToEdge(entry.square, entry.d)

\* C35: no target of the knight, king and pawn-attack maps of a square lies
\* more than 2, 1 and 1 files away from it, and each of the eight ray maps of
\* a square holds exactly the squares between it and the edge of the board
\* in the direction of the map.
C35_MapsDoNotWrapAndRaysAreComplete == last_op.op # "new" => MapEntryLawful(last_op)

\* the king on h4 has five targets, none of them on the a-file
C35_Witness ==
    /\ last_op.op = "king"
    /\ last_op.square = 31
    /\ last_op.board = {22, 23, 30, 38, 39}

(***************************************************************************)
(* The depth counter of iterative_deepen                                    *)
(***************************************************************************)
\* the frames of iterative_deepen and of quiesce on the call stack
DeepenFrames == {k \in 1..Len(call_stack) : call_stack[k].fn = "iterative_deepen"}

QuiesceFrames == {k \in 1..Len(call_stack) : call_stack[k].fn = "quiesce"}

\* C36: while iterative_deepen runs, self.max_depth += 1 and max_depth + 4 in
\* quiesce stay within 8 bits: no turn of the loop ends in an overflow panic
\* or wraps the counter below the depth the call started with, and the call
\* returns its result after the turns it has taken.
C36_DepthCounterStaysInEightBits ==
    /\ (call_stack = <<>> /\ returned.fn = "iterative_deepen") => returned.panic = NoPanic
    /\ \A k \in DeepenFrames : max_depth >= call_stack[k].prev_depth
    /\ QuiesceFrames # {} => quiesce_depth_limit <= U8_MAX

(***************************************************************************)
(* The halfmove clock                                                       *)
(***************************************************************************)
\* C37: make_move leaves the halfmove clock one above what it was, whatever
\* the move, and unmake_move puts back the value the clock had before the
\* move; the 8-bit clock never wraps.
C37_HalfmoveClockCountsEveryMove ==
    /\ last_op.op = "make_move" =>
          make_unmaker.state.halfmove = last_op.before.state.halfmove + 1
    /\ last_op.op = "unmake_move" =>
          make_unmaker.state.halfmove = last_op.made.before.state.halfmove
    /\ make_unmaker.state.halfmove \in 0..U8_MAX

(***************************************************************************)
(* The values the searches negate                                           *)
(***************************************************************************)
\* the 32-bit integers whose negation is a 32-bit integer
Negatable(x) == x >= MIN_SCORE /\ x <= MAX_SCORE

\* C38: in a search started with the window (MIN_SCORE, MAX_SCORE), the alpha
\* and beta of every call (negated into the window of its children), its best
\* score, and the value a call returns (negated by its caller) lie between
\* i32::MIN + 1 and i32::MAX, so that no negation overflows.
C38_NegatedValuesAboveLeastInteger ==
    /\ \A k \in SearchFrames :
          /\ Negatable(call_stack[k].alpha)
          /\ Negatable(call_stack[k].beta)
          /\ Negatable(call_stack[k].best_score)
    /\ returned.fn \in {"alpha_beta_search", "quiesce"} => Negatable(returned.value)

\* the score of a checkmate has come back to the call that waits for it: the
\* call was given the window (-MAX_SCORE, -alpha) by a caller that had raised
\* its alpha, and is about to negate the score
C38_Witness ==
    /\ Len(call_stack) >= 2
    /\ Top.pc = "wait"
    /\ Top.alpha = -MAX_SCORE
    /\ Top.beta < MAX_SCORE
    /\ returned.fn \in {"alpha_beta_search", "quiesce"}
    /\ returned.value = CHECKMATE_SCORE

(***************************************************************************)
(* SpecApi: is_move_legal and needs_promotion of api.rs, asked with a       *)
(* position and a move string.  A string is a sequence of characters.       *)
(***************************************************************************)
FileChars == <<"a", "b", "c", "d", "e", "f", "g", "h">>

RankChars == <<"1", "2", "3", "4", "5", "6", "7", "8">>

\* (from % 8 + 97) as char, (from / 8 + 49) as char
SquareString(s) == <<FileChars[file(s) + 1], RankChars[rank(s) + 1]>>

to_perft_string(m) ==
    SquareString(m.from) \o SquareString(m.to)
    \o (CASE m.code \in {"KnightPromotion", "KnightPromotionCapture"} -> <<"N">>
          [] m.code \in {"BishopPromotion", "BishopPromotionCapture"} -> <<"B">>
          [] m.code \in {"RookPromotion", "RookPromotionCapture"} -> <<"R">>
          [] m.code \in {"QueenPromotion", "QueenPromotionCapture"} -> <<"Q">>
          [] OTHER -> <<>>)

\* str::to_lowercase on the characters move strings are made of
to_lowercase(string) ==
    [i \in 1..Len(string) |->
        CASE string[i] = "N" -> "n"
          [] string[i] = "B" -> "b"
          [] string[i] = "R" -> "r"
          [] string[i] = "Q" -> "q"
          [] OTHER -> string[i]]

matches_perft_string(m, string) == to_lowercase(to_perft_string(m)) = to_lowercase(string)

\* move.split_at(4).0, for a string of four characters or more
FirstFour(string) == SubSeq(string, 1, 4)

\* for m in move_list.get_current_ply() { if m.matches_perft_string(..) { .. break } }
RECURSIVE FirstMatching(_, _, _)
FirstMatching(ply, string, i) ==
    IF i > Len(ply) THEN ZeroMove
    ELSE IF matches_perft_string(ply[i], string) THEN ply[i]
    ELSE FirstMatching(ply, string, i + 1)

\* the move the two queries take the string for
PseudoLegalMoveOf(state, string) ==
    FirstMatching(get_current_ply(generate_pseudo_legal_moves(state, new_ply(MoveListNew))),
                  FirstFour(string), 1)

is_move_legal(state, string) ==
    With(PseudoLegalMoveOf(state, string), LAMBDA pseudo_legal_move :
       IF pseudo_legal_move = ZeroMove THEN FALSE
       ELSE was_move_legal(make_move(MakeUnmakerNew(state), pseudo_legal_move).state))

needs_promotion(state, string) == is_promotion(PseudoLegalMoveOf(state, string))

PositionsApi == {PawnPosition, PawnKindsPosition, CheckPosition, position_3}

\* the strings asked: a square of the side to move, any square, and nothing
\* or a promotion letter after them
MoveStrings(state) ==
    {SquareString(from) \o SquareString(to) \o suffix :
        from \in MoveGeneratorContext(state).friendly_occupation,
        to \in Squares,
        suffix \in {<<>>, <<"q">>}}

\* each query starts from the FEN anew: GameState::from_fen, MakeUnmaker::new
InitApi ==
    /\ make_unmaker \in {MakeUnmakerNew(p) : p \in PositionsApi}
    /\ last_op = [op |-> "new"]
    /\ Idle

IsMoveLegal ==
    /\ last_op.op = "new"
    /\ \E string \in MoveStrings(make_unmaker.state) :
          last_op' = [op |-> "is_move_legal", string |-> string,
                      ret |-> is_move_legal(make_unmaker.state, string)]
    /\ MapsIdle

NeedsPromotion ==
    /\ last_op.op = "new"
    /\ \E string \in MoveStrings(make_unmaker.state) :
          last_op' = [op |-> "needs_promotion", string |-> string,
                      ret |-> needs_promotion(make_unmaker.state, string)]
    /\ MapsIdle

NextApi == IsMoveLegal \/ NeedsPromotion

SpecApi == InitApi /\ [][NextApi]_vars

(***************************************************************************)
(* Claims checked under SpecApi                                             *)
(***************************************************************************)
\* the pseudo-legal pawn moves onto the last rank that go from and to the
\* squares the string names
PromotionsNamed(state, string) ==
    {m \in Range(get_pseudo_legal_moves(state)) :
        /\ is_promotion(m)
        /\ SquareString(m.from) \o SquareString(m.to) = string}

\* C39: for a string of four characters that names the squares of a
\* pseudo-legal pawn move onto the last rank, needs_promotion answers true,
\* and is_move_legal answers true when the move leaves the mover's king
\* unattacked.
C39_PromotionRecognisedFromFourCharacters ==
    (last_op.op \in {"needs_promotion", "is_move_legal"}
       /\ Len(last_op.string) = 4
       /\ PromotionsNamed(make_unmaker.state, last_op.string) # {}) =>
        /\ last_op.op = "needs_promotion" => last_op.ret
        /\ (/\ last_op.op = "is_move_legal"
            /\ \A m \in PromotionsNamed(make_unmaker.state, last_op.string) :
                  was_move_legal(make_move(make_unmaker, m).state)) => last_op.ret

====
